---------------------------- MODULE Spec2Model ----------------------------
(***************************************************************************)
(* Tracking synchronization and status-transition engine of the Clamio     *)
(* backend: the order tracking service (sync runs, per-shipment commit,    *)
(* status normalization, handover detection), the webhook service, the     *)
(* deploy-time sync script and the handover migration.                     *)
(***************************************************************************)
EXTENDS Integers, Sequences, FiniteSets, TLC

(***************************************************************************)
(* JavaScript string primitives used by the status normalizer.             *)
(***************************************************************************)
NULL == "<null>"

Upper == "ABCDEFGHIJKLMNOPQRSTUVWXYZ"

Lower == "abcdefghijklmnopqrstuvwxyz"

CharAt(s, i) == SubSeq(s, i, i)

LowerChar(c) ==
    IF \E k \in 1..Len(Upper) : CharAt(Upper, k) = c
    THEN CharAt(Lower, CHOOSE k \in 1..Len(Upper) : CharAt(Upper, k) = c)
    ELSE c

RECURSIVE MapChars(_, _, _)
MapChars(s, i, which) ==
    IF i > Len(s) THEN ""
    ELSE LET c == CharAt(s, i)
             d == IF which = "lower" THEN LowerChar(c)
                  ELSE IF c = "_" THEN " " ELSE c
         IN d \o MapChars(s, i + 1, which)

toLowerCase(s) == MapChars(s, 1, "lower")

replaceUnderscores(s) == MapChars(s, 1, "underscore")

RECURSIVE trimStart(_)
trimStart(s) ==
    IF Len(s) > 0 /\ CharAt(s, 1) = " " THEN trimStart(SubSeq(s, 2, Len(s))) ELSE s

RECURSIVE trimEnd(_)
trimEnd(s) ==
    IF Len(s) > 0 /\ CharAt(s, Len(s)) = " " THEN trimEnd(SubSeq(s, 1, Len(s) - 1)) ELSE s

trim(s) == trimEnd(trimStart(s))

includes(s, p) ==
    \E i \in 1..(Len(s) - Len(p) + 1) : SubSeq(s, i, i + Len(p) - 1) = p

\* status.trim().toLowerCase().replace(/_/g, ' ')
fallbackKey(status) == replaceUnderscores(toLowerCase(trim(status)))


(***************************************************************************)
(* State.                                                                  *)
(***************************************************************************)
VARIABLES
    statusMapping,   \* shipment-status mapping table: raw status -> [renamed, is_handover]
    now,             \* wall clock, in seconds (new Date())
    dbAvailable,     \* database.isMySQLAvailable()
    carrier,         \* what the carrier API currently reports per order (shipment_status)
    labels,          \* labels table: order -> [status, is_handover, handover_at]
    orderTracking,   \* order_tracking table: order -> set of [name, time]
    orderType,       \* lifecycle class stored with the tracking events: order -> active|inactive
    rtoTracking,     \* rto_tracking table: order -> NULL or [status, rto_wh, activity_date]
    isSyncRunning,   \* isActiveSyncRunning / isInactiveSyncRunning
    run,             \* one frame per invocation slot of syncActive/InactiveOrderTracking
    script,          \* the deploy-time sync script (sync-all-tracking-status.js)
    migration,       \* the handover migration (migrate-handover-status.js)
    webhook,         \* one dispatch cycle of WebhookService.sendStatusUpdateWebhook
    detect,          \* one call of processOrderTrackingWithData on a given history
    returned,        \* the value most recently returned by a sync invocation
    customerInfo,    \* customer_info table: the shipping phone the payload lookups read
    chunking,        \* the batch loop of one store over a long list of waybills
    storeCredentialsCache,  \* this.storeCredentialsCache: account_code -> auth_token
    stores,          \* stores table: account_code -> row read by getStoreByAccountCode
    resolution,      \* one resolution of the return warehouse from a carrier answer
    normalizer,      \* one call of normalizeShipmentStatus / shouldSetHandover
    dispatch,        \* the shared WebhookService instance and two concurrent cycles
    rtoMigration,    \* the return-warehouse migration (updateRtoWarehouse.js)
    reversal         \* the AutoReversalService instance and its calls in progress

vars == <<statusMapping, now, dbAvailable, carrier, labels, orderTracking, orderType,
          rtoTracking, isSyncRunning, run, script, migration, webhook, detect, returned,
          customerInfo, chunking, storeCredentialsCache, stores, resolution, normalizer,
          dispatch, rtoMigration, reversal>>

(***************************************************************************)
(* Status normalizer (orderTrackingService).                               *)
(***************************************************************************)
falsy(v) == v = NULL \/ v = ""

\* database.getShipmentStatusInfo(status): whether a mapping row exists, and the row
hasStatusInfo(status) == status \in DOMAIN statusMapping

getShipmentStatusInfo(status) == statusMapping[status]

fallbackStatuses ==
    [k \in {"out for delivery", "rto", "rto initiated", "rto in transit", "rto delivered",
            "rto out for delivery", "rto failed", "rtd", "cancelled", "returned",
            "failed delivery", "attempted delivery", "shipment booked", "dispatched",
            "in warehouse", "out for pickup"} |->
        CASE k = "out for delivery" -> "Out for Delivery"
          [] k = "rto" -> "RTO"
          [] k = "rto initiated" -> "RTO Initiated"
          [] k = "rto in transit" -> "RTO In Transit"
          [] k = "rto delivered" -> "RTO Delivered"
          [] k = "rto out for delivery" -> "RTO Out for Delivery"
          [] k = "rto failed" -> "RTO Failed"
          [] k = "rtd" -> "RTO Delivered"
          [] k = "cancelled" -> "Cancelled"
          [] k = "returned" -> "Returned"
          [] k = "failed delivery" -> "Failed Delivery"
          [] k = "attempted delivery" -> "Attempted Delivery"
          [] k = "shipment booked" -> "Shipment Booked"
          [] k = "dispatched" -> "Dispatched"
          [] k = "in warehouse" -> "In Warehouse"
          [] k = "out for pickup" -> "Out for Pickup"]

normalizeFallback(status) ==
    LET normalized == fallbackKey(status) IN
    IF includes(normalized, "pickup failed") \/ includes(normalized, "failed pickup")
    THEN "Pickup Failed"
    ELSE IF \/ includes(normalized, "picked")
            \/ (includes(normalized, "pickup") /\ ~includes(normalized, "failed"))
            \/ normalized = "in transit"
    THEN "In Transit"
    ELSE IF normalized = "delivered" THEN "Delivered"
    ELSE IF normalized \in DOMAIN fallbackStatuses THEN fallbackStatuses[normalized]
    ELSE status

\* what a call evaluates to when it throws
Thrown == "<TypeError>"

\* a normalizer without the test of its argument: null.trim() throws
normalizeShipmentStatus_NoGuard(status) ==
    IF status = NULL THEN Thrown
    ELSE IF hasStatusInfo(status) THEN getShipmentStatusInfo(status).renamed
    ELSE normalizeFallback(status)

normalizeShipmentStatus(status) ==
    IF falsy(status) THEN "Unknown"
    ELSE IF hasStatusInfo(status) THEN getShipmentStatusInfo(status).renamed
    ELSE normalizeFallback(status)

nonHandoverPatterns ==
    {"awb assigned", "shipment booked", "pickup failed", "out for pickup", "shpfr3"}

handoverPatterns ==
    {"in transit", "picked", "dispatched", "warehouse", "out for delivery", "delivered",
     "rto", "undelivered", "failed delivery", "attempted", "cancelled", "returned"}

\* a fallback that tests the handover patterns before the exclusions
shouldSetHandover_HandoverFirst(status) ==
    IF falsy(status) THEN FALSE
    ELSE IF hasStatusInfo(status) THEN getShipmentStatusInfo(status).is_handover = 1
    ELSE LET normalizedStatus == fallbackKey(status) IN
         IF \E p \in handoverPatterns : includes(normalizedStatus, p)
         THEN TRUE
         ELSE FALSE

shouldSetHandover(status) ==
    IF falsy(status) THEN FALSE
    ELSE IF hasStatusInfo(status) THEN getShipmentStatusInfo(status).is_handover = 1
    ELSE LET normalizedStatus == fallbackKey(status) IN
         IF \E p \in nonHandoverPatterns :
                includes(normalizedStatus, p) \/ normalizedStatus = p
         THEN FALSE
         ELSE \E p \in handoverPatterns : includes(normalizedStatus, p)

isRTOStatus(status) ==
    IF falsy(status) THEN FALSE ELSE includes(toLowerCase(status), "rto")


(***************************************************************************)
(* Per-shipment transition detection (processOrderTrackingWithData).       *)
(* A history is a sequence of events [name, time]; time NoTime is a        *)
(* missing timestamp.                                                      *)
(***************************************************************************)
NoTime == 0

\* the async function's result is a Promise; determineOrderType compares it with ===
AsyncResult(v) == [kind |-> "promise", val |-> v]

StringValue(v) == [kind |-> "string", val |-> v]

StrictEquals(a, b) == a.kind = b.kind /\ a.kind = "string" /\ a.val = b.val

\* events stamped with the time of the commit instead of their own
normalizeEvents_StampedAtCommit(history) ==
    [i \in DOMAIN history |->
        [name |-> normalizeShipmentStatus(history[i].name), time |-> now]]

\* normalizedTrackingEvents: every named event with its canonical name, the rest as is
normalizeEvents(history) ==
    [i \in DOMAIN history |->
        IF ~falsy(history[i].name)
        THEN [name |-> normalizeShipmentStatus(history[i].name), time |-> history[i].time]
        ELSE history[i]]

determineOrderType(history) ==
    IF Len(history) = 0 THEN "active"
    ELSE LET latest == history[Len(history)] IN
         IF falsy(latest.name) THEN "active"
         ELSE LET normalizedStatus == AsyncResult(normalizeShipmentStatus(latest.name)) IN
              IF StrictEquals(normalizedStatus, StringValue("Delivered"))
              THEN "inactive" ELSE "active"

RECURSIVE firstHandoverEventTime(_, _)
firstHandoverEventTime(events, i) ==
    IF i > Len(events) THEN NoTime
    ELSE IF /\ ~falsy(events[i].name)
            /\ shouldSetHandover(events[i].name)
            /\ events[i].time # NoTime
    THEN events[i].time
    ELSE firstHandoverEventTime(events, i + 1)

\* isHandover: tested on the raw name of the last element of the list as passed in
latestIsHandover(history) == shouldSetHandover(history[Len(history)].name)

\* handoverTimestamp: scanned in list order over the normalized events
handoverTimestampOf(history) ==
    IF latestIsHandover(history)
    THEN firstHandoverEventTime(normalizeEvents(history), 1)
    ELSE NoTime

\* the early returns of processOrderTrackingWithData: nothing to process
noTrackingData(data) ==
    IF ~data.present THEN TRUE
    ELSE IF Len(data.history) = 0 THEN TRUE
    ELSE falsy(data.history[Len(data.history)].name)

(***************************************************************************)
(* Persistence layer (config/database): the three writes of a commit.      *)
(***************************************************************************)
\* a labels row and a rto_tracking row before the first sync
FreshLabel == [status |-> NULL, is_handover |-> 0, handover_at |-> NoTime]

NoRto == [present |-> FALSE, status |-> NULL, rto_wh |-> NULL, activity_date |-> NoTime]

\* storeOrderTracking: insert every event not already present by (order, status, time)
storeOrderTrackingRows(rows, events) ==
    rows \cup {events[i] : i \in DOMAIN events}

\* updateLabelsShipmentStatus: status always, handover fields first-write-wins
updateLabelsShipmentStatusRow(row, status, isHandover, handoverTimestamp) ==
    [status |-> status,
     is_handover |-> IF isHandover THEN 1 ELSE row.is_handover,
     handover_at |-> IF isHandover /\ row.handover_at = NoTime
                     THEN handoverTimestamp ELSE row.handover_at]

\* storeRTOTracking: one record per shipment, upserted
storeRTOTrackingRow(row, status, rtoWh, activityDate) ==
    [present |-> TRUE,
     status |-> status,
     rto_wh |-> IF rtoWh # NULL THEN rtoWh ELSE row.rto_wh,
     activity_date |-> IF activityDate # NoTime THEN activityDate ELSE row.activity_date]


(***************************************************************************)
(* Bounds and static data of the model.                                    *)
(***************************************************************************)
NumOrders == 3

NumSlots == 2

MaxTime == 2

awbBatchSize == 50

Orders == 1..NumOrders

Slots == 1..NumSlots

Classes == {"active", "inactive"}

Times == 1..MaxTime

\* shipment_status values the carrier API may report
RawStatuses == {"Shipment Booked", "IN_TRANSIT", "RTO Delivered"}

\* orders alternate between two stores
accountCodeOf(o) == IF o % 2 = 1 THEN "STORE_A" ELSE "STORE_B"

Min(a, b) == IF a < b THEN a ELSE b

(***************************************************************************)
(* Credential resolver: getStoreCredentials and the stores table.          *)
(***************************************************************************)
Accounts == {"STORE_A", "STORE_B"}

\* what getStoreByAccountCode returns: no row, or a row with status and auth_token
NoStore == [found |-> FALSE, status |-> NULL, auth_token |-> NULL]

ActiveStore == [found |-> TRUE, status |-> "active", auth_token |-> "token-1"]

StoreRows ==
    {NoStore,
     [found |-> TRUE, status |-> "inactive", auth_token |-> "token-1"],
     [found |-> TRUE, status |-> "active", auth_token |-> NULL],
     ActiveStore,
     [found |-> TRUE, status |-> "active", auth_token |-> "token-2"]}

EmptyCache == [a \in Accounts |-> NULL]

AllStoresActive == [a \in Accounts |-> ActiveStore]

\* a resolver that, like the migration's, does not look at the status of the store
credentialsOf_AnyStatus(store) ==
    IF ~store.found THEN NULL
    ELSE IF falsy(store.auth_token) THEN NULL
    ELSE store.auth_token

\* the three throws after the lookup; NULL stands for a throw
credentialsOf(store) ==
    IF ~store.found THEN NULL
    ELSE IF store.status # "active" THEN NULL
    ELSE IF falsy(store.auth_token) THEN NULL
    ELSE store.auth_token

(***************************************************************************)
(* Sync orchestrator: syncActiveOrderTracking / syncInactiveOrderTracking. *)
(***************************************************************************)
NoData == [present |-> FALSE, history |-> <<>>]

NoTask == [pc |-> "none", data |-> NoData]

NoResult == [success |-> FALSE, message |-> "none", processed |-> 0,
             successCount |-> 0, errorCount |-> 0, keys |-> {}]

\* the properties of the object literal at each return statement
GuardKeys == {"success", "message"}

FailedKeys == {"success", "message", "timestamp"}

CountKeys == {"success", "message", "processed", "successCount", "errorCount", "timestamp"}

IdleFrame ==
    [pc |-> "idle", orders |-> <<>>, groups |-> <<>>, g |-> 1, i |-> 0,
     tasks |-> [o \in Orders |-> NoTask], successCount |-> 0, errorCount |-> 0,
     calls |-> <<>>, requests |-> <<>>]

InProgress(c, k) == run[c][k].pc # "idle"

NoReturn == [class |-> "none", result |-> NoResult]

AlreadyInProgress ==
    [NoResult EXCEPT !.message = "tracking sync already in progress", !.keys = GuardKeys]

\* a guard that lets every invocation through
syncGuardBlocks_Unchecked(c) == FALSE

\* one flag for both classes
syncGuardBlocks_Shared(c) == \E d \in DOMAIN isSyncRunning : isSyncRunning[d]

\* if (this.isActiveSyncRunning) return { success: false, ... already in progress }
syncGuardBlocks(c) == isSyncRunning[c]

\* a flag cleared on the success path only, with no finally
flagAfterRun_OnSuccessOnly(c, success) == IF success THEN FALSE ELSE isSyncRunning[c]

\* finally { this.isActiveSyncRunning = false }
flagAfterRun(c, success) == FALSE

\* getActiveOrdersForTracking / getInactiveOrdersForTracking: the class's population
ordersForTracking(c) ==
    SelectSeq([o \in Orders |-> o], LAMBDA o : orderType[o] = c)

RECURSIVE storesInOrder(_, _)
storesInOrder(orders, seen) ==
    IF Len(orders) = 0 THEN <<>>
    ELSE LET a == accountCodeOf(Head(orders)) IN
         IF a \in seen THEN storesInOrder(Tail(orders), seen)
         ELSE <<a>> \o storesInOrder(Tail(orders), seen \cup {a})

\* ordersByStore: a Map in insertion order, account_code -> orders
groupByStore(orders) ==
    LET accounts == storesInOrder(orders, {}) IN
    [n \in DOMAIN accounts |->
        [account |-> accounts[n],
         orders |-> SelectSeq(orders, LAMBDA o : accountCodeOf(o) = accounts[n])]]

currentBatch(f) ==
    LET storeOrders == f.groups[f.g].orders IN
    SubSeq(storeOrders, f.i + 1, Min(f.i + awbBatchSize, Len(storeOrders)))

InBatch(f, o) == \E n \in DOMAIN currentBatch(f) : currentBatch(f)[n] = o

\* the return statement of a run, with the finally block
Finish(c, k, f, result) ==
    /\ run' = [run EXCEPT ![c][k] = IdleFrame]
    /\ returned' = [class |-> c, result |-> result]
    /\ isSyncRunning' = [isSyncRunning EXCEPT ![c] = flagAfterRun(c, result.success)]

\* a loop test that is off by one: i + awbBatchSize <= storeOrders.length
afterBatch_Inclusive(f) ==
    IF f.i + awbBatchSize <= Len(f.groups[f.g].orders)
    THEN [f EXCEPT !.pc = "batchdelay"]
    ELSE [f EXCEPT !.pc = "storedelay"]

\* where the run goes once the current batch is counted
afterBatch(f) ==
    IF f.i + awbBatchSize < Len(f.groups[f.g].orders)
    THEN [f EXCEPT !.pc = "batchdelay"]
    ELSE [f EXCEPT !.pc = "storedelay"]

Invoke(c, k) ==
    /\ run[c][k].pc = "idle"
    /\ IF syncGuardBlocks(c)
       THEN /\ returned' = [class |-> c, result |-> AlreadyInProgress]
            /\ UNCHANGED <<run, isSyncRunning>>
       ELSE /\ run' = [run EXCEPT ![c][k] = [IdleFrame EXCEPT !.pc = "waitdb"]]
            /\ isSyncRunning' = [isSyncRunning EXCEPT ![c] = TRUE]
            /\ UNCHANGED returned
    /\ UNCHANGED <<dispatch, rtoMigration, reversal, storeCredentialsCache, stores, resolution, normalizer,
                   statusMapping, customerInfo, chunking, now, dbAvailable, carrier, labels, orderTracking,
                   orderType, rtoTracking, script, migration, webhook, detect>>

\* waitForMySQLInitialization, isMySQLAvailable, the population query and the grouping
StartRun(c, k) ==
    LET f == run[c][k]
        orders == ordersForTracking(c)
    IN
    /\ f.pc = "waitdb"
    /\ IF ~dbAvailable
       THEN Finish(c, k, f, [NoResult EXCEPT !.message = "Database connection not available",
                                             !.keys = FailedKeys])
       ELSE IF Len(orders) = 0
       THEN Finish(c, k, f, [NoResult EXCEPT !.success = TRUE, !.message = "No orders to sync",
                                             !.keys = CountKeys])
       ELSE /\ run' = [run EXCEPT ![c][k] =
                        [f EXCEPT !.pc = "fetch", !.orders = orders,
                                  !.groups = groupByStore(orders), !.g = 1, !.i = 0]]
            /\ UNCHANGED <<isSyncRunning, returned>>
    /\ UNCHANGED <<dispatch, rtoMigration, reversal, storeCredentialsCache, stores, resolution, normalizer,
                   statusMapping, customerInfo, chunking, now, dbAvailable, carrier, labels, orderTracking,
                   orderType, rtoTracking, script, migration, webhook, detect>>

\* fetchBatchTrackingFromShipway for the current batch, then one task per order
trackingDataFor(o) ==
    IF carrier[o] = NULL THEN NoData
    ELSE [present |-> TRUE, history |-> <<[name |-> carrier[o], time |-> now]>>]

\* a call that throws on missing data instead of returning
earlyReturnOutcome_Thrown == "rejected"

\* return { success: true, message: 'No tracking data available' }: the promise fulfils
earlyReturnOutcome == "fulfilled"

spawnTask(o) ==
    IF noTrackingData(trackingDataFor(o))
    THEN [pc |-> earlyReturnOutcome, data |-> NoData]
    ELSE [pc |-> "store", data |-> trackingDataFor(o)]

\* a failed fetch that ends the loops instead of going on with the next batch
afterFetchError_Abort(f) ==
    [f EXCEPT !.pc = "validate", !.errorCount = f.errorCount + Len(currentBatch(f))]

\* a catch that goes on with the next batch at once, as a continue would
afterFetchError_NoDelay(f) ==
    IF f.i + awbBatchSize < Len(f.groups[f.g].orders)
    THEN [f EXCEPT !.pc = "fetch", !.i = f.i + awbBatchSize,
                   !.errorCount = f.errorCount + Len(currentBatch(f))]
    ELSE [f EXCEPT !.pc = "storedelay",
                   !.errorCount = f.errorCount + Len(currentBatch(f))]

\* catch (batchError) { errorCount += batch.length }, then on with the loop
afterFetchError(f) ==
    [afterBatch(f) EXCEPT !.errorCount = f.errorCount + Len(currentBatch(f))]

FetchBatch(c, k) ==
    LET f == run[c][k] IN
    /\ f.pc = "fetch"
    /\ \E ok \in BOOLEAN :
         LET called == [f EXCEPT !.calls = Append(f.calls,
                                              [awbs |-> currentBatch(f), ok |-> ok])]
         IN
         IF ok
         THEN run' = [run EXCEPT ![c][k] =
                        [called EXCEPT !.pc = "process",
                                       !.tasks = [o \in Orders |->
                                           IF InBatch(f, o) THEN spawnTask(o) ELSE NoTask]]]
         ELSE run' = [run EXCEPT ![c][k] = afterFetchError(called)]
    /\ UNCHANGED <<dispatch, rtoMigration, reversal, storeCredentialsCache, stores, resolution, normalizer,
                   statusMapping, customerInfo, chunking, now, dbAvailable, carrier, labels, orderTracking,
                   orderType, rtoTracking, isSyncRunning, script, migration, webhook, detect, returned>>


(***************************************************************************)
(* processOrderTrackingWithData: the three awaited writes of one shipment. *)
(***************************************************************************)
setTask(c, k, o, pc) ==
    run' = [run EXCEPT ![c][k].tasks[o].pc = pc]

\* The same fetch, await by await: the cache test, the store lookup, the request
\* and its answer.
requestOf(f, token) ==
    [account |-> f.groups[f.g].account, awbs |-> currentBatch(f), auth |-> token]

attempted(f, ok) == [f EXCEPT !.calls = Append(f.calls, [awbs |-> currentBatch(f), ok |-> ok])]

\* if (this.storeCredentialsCache.has(accountCode)) return ...; else the lookup starts
FetchResolve(c, k) ==
    LET f == run[c][k]
        cached == storeCredentialsCache[f.groups[f.g].account]
    IN
    /\ f.pc = "fetch"
    /\ run' = [run EXCEPT ![c][k] =
                 IF cached # NULL
                 THEN [f EXCEPT !.pc = "inflight",
                                !.requests = Append(f.requests, requestOf(f, cached))]
                 ELSE [f EXCEPT !.pc = "lookup"]]
    /\ UNCHANGED <<dispatch, rtoMigration, reversal, storeCredentialsCache, stores, resolution, normalizer,
                   statusMapping, customerInfo, chunking, now, dbAvailable, carrier, labels,
                   orderTracking, orderType, rtoTracking, isSyncRunning, script, migration,
                   webhook, detect, returned>>

\* the answer of getStoreByAccountCode: throw, or cache the token and send the request
FetchLookup(c, k) ==
    LET f == run[c][k]
        account == f.groups[f.g].account
        token == IF dbAvailable THEN credentialsOf(stores[account]) ELSE NULL
    IN
    /\ f.pc = "lookup"
    /\ IF token = NULL
       THEN /\ run' = [run EXCEPT ![c][k] = afterFetchError(attempted(f, FALSE))]
            /\ UNCHANGED storeCredentialsCache
       ELSE /\ storeCredentialsCache' = [storeCredentialsCache EXCEPT ![account] = token]
            /\ run' = [run EXCEPT ![c][k] =
                         [f EXCEPT !.pc = "inflight",
                                   !.requests = Append(f.requests, requestOf(f, token))]]
    /\ UNCHANGED <<dispatch, rtoMigration, reversal, stores, resolution, normalizer,
                   statusMapping, customerInfo, chunking, now, dbAvailable, carrier, labels,
                   orderTracking, orderType, rtoTracking, isSyncRunning, script, migration,
                   webhook, detect, returned>>

\* the answer of axios.get: the tasks of the batch start, or the fetch throws
FetchReturn(c, k) ==
    LET f == run[c][k] IN
    /\ f.pc = "inflight"
    /\ \E ok \in BOOLEAN :
         IF ok
         THEN run' = [run EXCEPT ![c][k] =
                        [attempted(f, TRUE) EXCEPT
                            !.pc = "process",
                            !.tasks = [o \in Orders |->
                                IF InBatch(f, o) THEN spawnTask(o) ELSE NoTask]]]
         ELSE run' = [run EXCEPT ![c][k] = afterFetchError(attempted(f, FALSE))]
    /\ UNCHANGED <<dispatch, rtoMigration, reversal, storeCredentialsCache, stores, resolution, normalizer,
                   statusMapping, customerInfo, chunking, now, dbAvailable, carrier, labels,
                   orderTracking, orderType, rtoTracking, isSyncRunning, script, migration,
                   webhook, detect, returned>>

\* a catch that logs the failed write and carries on
taskAfterWriteError_Swallowed == "label"

\* a catch that logs the failed write and returns normally
taskAfterWriteError_Fulfilled == "fulfilled"

\* catch (error) { throw error }: a failed write rejects the shipment's task
taskAfterWriteError == "rejected"

\* await database.storeOrderTracking(orderId, actualOrderType, normalizedTrackingEvents)
TaskStore(c, k, o) ==
    LET t == run[c][k].tasks[o]
        events == normalizeEvents(t.data.history)
    IN
    /\ t.pc = "store"
    /\ IF dbAvailable
       THEN /\ orderTracking' = [orderTracking EXCEPT
                                   ![o] = storeOrderTrackingRows(orderTracking[o], events)]
            /\ orderType' = [orderType EXCEPT ![o] = determineOrderType(events)]
            /\ setTask(c, k, o, "label")
       ELSE /\ setTask(c, k, o, taskAfterWriteError)
            /\ UNCHANGED <<orderTracking, orderType, returned>>
    /\ UNCHANGED <<dispatch, rtoMigration, reversal, storeCredentialsCache, stores, resolution, normalizer,
                   statusMapping, customerInfo, chunking, now, dbAvailable, carrier, labels, rtoTracking,
                   isSyncRunning, script, migration, webhook, detect, returned>>

\* await database.updateLabelsShipmentStatus(orderId, accountCode, status, isHandover, ts)
TaskLabel(c, k, o) ==
    LET t == run[c][k].tasks[o]
        history == t.data.history
        normalizedLatestStatus == normalizeShipmentStatus(history[Len(history)].name)
    IN
    /\ t.pc = "label"
    /\ IF dbAvailable
       THEN /\ labels' = [labels EXCEPT ![o] =
                            updateLabelsShipmentStatusRow(labels[o], normalizedLatestStatus,
                                latestIsHandover(history), handoverTimestampOf(history))]
            /\ setTask(c, k, o, IF isRTOStatus(normalizedLatestStatus)
                                THEN "rto" ELSE "fulfilled")
       ELSE /\ setTask(c, k, o, taskAfterWriteError)
            /\ UNCHANGED labels
    /\ UNCHANGED <<dispatch, rtoMigration, reversal, storeCredentialsCache, stores, resolution, normalizer,
                   statusMapping, customerInfo, chunking, now, dbAvailable, carrier, orderTracking, orderType,
                   rtoTracking, isSyncRunning, script, migration, webhook, detect, returned>>

\* await database.storeRTOTracking(...), its failure caught and logged
TaskRTO(c, k, o) ==
    LET t == run[c][k].tasks[o]
        history == t.data.history
        normalizedLatestStatus == normalizeShipmentStatus(history[Len(history)].name)
    IN
    /\ t.pc = "rto"
    /\ IF dbAvailable
       THEN rtoTracking' = [rtoTracking EXCEPT ![o] =
                              storeRTOTrackingRow(rtoTracking[o], normalizedLatestStatus,
                                                  NULL, NoTime)]
       ELSE UNCHANGED rtoTracking
    /\ setTask(c, k, o, "fulfilled")
    /\ UNCHANGED <<dispatch, rtoMigration, reversal, storeCredentialsCache, stores, resolution, normalizer,
                   statusMapping, customerInfo, chunking, now, dbAvailable, carrier, labels, orderTracking,
                   orderType, isSyncRunning, script, migration, webhook, detect, returned>>

\* a wait that ends with the first promise to settle
allSettled_Any(f) ==
    \E n \in DOMAIN currentBatch(f) :
        f.tasks[currentBatch(f)[n]].pc \in {"fulfilled", "rejected"}

\* await Promise.allSettled(processPromises): every promise of the batch has settled
allSettled(f) ==
    \A n \in DOMAIN currentBatch(f) :
        f.tasks[currentBatch(f)[n]].pc \in {"fulfilled", "rejected"}

\* Promise.allSettled(processPromises) and the counting of its results
Settle(c, k) ==
    LET f == run[c][k]
        batch == currentBatch(f)
        fulfilled == {n \in DOMAIN batch : f.tasks[batch[n]].pc = "fulfilled"}
        rejected == {n \in DOMAIN batch : f.tasks[batch[n]].pc = "rejected"}
    IN
    /\ f.pc = "process"
    /\ allSettled(f)
    /\ run' = [run EXCEPT ![c][k] =
                 [afterBatch(f) EXCEPT
                     !.tasks = [o \in Orders |-> NoTask],
                     !.successCount = f.successCount + Cardinality(fulfilled),
                     !.errorCount = f.errorCount + Cardinality(rejected)]]
    /\ UNCHANGED <<dispatch, rtoMigration, reversal, storeCredentialsCache, stores, resolution, normalizer,
                   statusMapping, customerInfo, chunking, now, dbAvailable, carrier, labels, orderTracking,
                   orderType, rtoTracking, isSyncRunning, script, migration, webhook, detect, returned>>

\* setTimeout between the batches of one store
BatchDelay(c, k) ==
    LET f == run[c][k] IN
    /\ f.pc = "batchdelay"
    /\ run' = [run EXCEPT ![c][k] = [f EXCEPT !.pc = "fetch", !.i = f.i + awbBatchSize]]
    /\ UNCHANGED <<dispatch, rtoMigration, reversal, storeCredentialsCache, stores, resolution, normalizer,
                   statusMapping, customerInfo, chunking, now, dbAvailable, carrier, labels, orderTracking,
                   orderType, rtoTracking, isSyncRunning, script, migration, webhook, detect, returned>>

completedResult(f) ==
    [success |-> TRUE, message |-> "tracking sync completed (batch mode)",
     processed |-> Len(f.orders), successCount |-> f.successCount,
     errorCount |-> f.errorCount, keys |-> CountKeys]

\* setTimeout after each store; after the last store the active run validates
StoreDelay(c, k) ==
    LET f == run[c][k] IN
    /\ f.pc = "storedelay"
    /\ IF f.g < Len(f.groups)
       THEN /\ run' = [run EXCEPT ![c][k] = [f EXCEPT !.pc = "fetch", !.g = f.g + 1, !.i = 0]]
            /\ UNCHANGED <<isSyncRunning, returned>>
       ELSE IF c = "active"
       THEN /\ run' = [run EXCEPT ![c][k] = [f EXCEPT !.pc = "validate"]]
            /\ UNCHANGED <<isSyncRunning, returned>>
       ELSE Finish(c, k, f, completedResult(f))
    /\ UNCHANGED <<dispatch, rtoMigration, reversal, storeCredentialsCache, stores, resolution, normalizer,
                   statusMapping, customerInfo, chunking, now, dbAvailable, carrier, labels, orderTracking,
                   orderType, rtoTracking, script, migration, webhook, detect>>

\* database.validateHandoverTrackingLogic(): its failure is logged, the run succeeds
Validate(c, k) ==
    LET f == run[c][k] IN
    /\ c = "active"
    /\ f.pc = "validate"
    /\ Finish(c, k, f, completedResult(f))
    /\ UNCHANGED <<dispatch, rtoMigration, reversal, storeCredentialsCache, stores, resolution, normalizer,
                   statusMapping, customerInfo, chunking, now, dbAvailable, carrier, labels, orderTracking,
                   orderType, rtoTracking, script, migration, webhook, detect>>


(***************************************************************************)
(* The batch loop of one store, on lists of up to MaxWaybills orders: the   *)
(* same slices and the same loop test as FetchBatch and BatchDelay, with    *)
(* the processing of a fetched batch taken as one step.                     *)
(***************************************************************************)
MaxWaybills == 120

NoAwb == 0

IdleChunking ==
    [pc |-> "idle", population |-> <<>>, groups |-> <<>>, g |-> 1, i |-> 0,
     calls |-> <<>>, failed |-> <<>>, successCount |-> 0, errorCount |-> 0, waits |-> 0]

\* the orders a population query returns: withAwb orders with waybills 1..withAwb,
\* preceded by withoutAwb orders that have none yet
populationOf(withAwb, withoutAwb) ==
    [n \in 1..(withAwb + withoutAwb) |-> IF n <= withoutAwb THEN NoAwb ELSE n - withoutAwb]

\* if (!order.awb) continue; ... ordersByStore.get(order.account_code).push(order)
storeOrdersOf(population) == SelectSeq(population, LAMBDA awb : awb # NoAwb)

\* the grouping: a store is in the Map only if one of its orders has a waybill; after
\* the orders of store A the population may hold one order of store B
ChunkStart(withAwb, withoutAwb, second) ==
    LET population == populationOf(withAwb, withoutAwb)
        storeOrders == storeOrdersOf(population)
        groups == (IF Len(storeOrders) = 0 THEN <<>>
                   ELSE <<[account |-> "STORE_A", orders |-> storeOrders]>>)
                  \o (IF second THEN <<[account |-> "STORE_B",
                                         orders |-> <<MaxWaybills + 1>>]>>
                      ELSE <<>>)
    IN
    /\ chunking.pc = "idle"
    /\ withAwb + withoutAwb >= 1
    /\ chunking' = [IdleChunking EXCEPT
                       !.population = population,
                       !.groups = groups,
                       !.pc = IF Len(groups) = 0 THEN "done" ELSE "fetch"]
    /\ UNCHANGED <<dispatch, rtoMigration, reversal, storeCredentialsCache, stores, resolution, normalizer,
                   statusMapping, customerInfo, now, dbAvailable, carrier, labels,
                   orderTracking, orderType, rtoTracking, isSyncRunning, run, script,
                   migration, webhook, detect, returned>>

\* one fetchBatchTrackingFromShipway(awbs, accountCode) and the counting of the batch
ChunkFetch(ok) ==
    LET f == chunking
        batch == currentBatch(f)
        next == IF ok
                THEN [afterBatch(f) EXCEPT !.successCount = f.successCount + Len(batch)]
                ELSE afterFetchError(f)
    IN
    /\ f.pc = "fetch"
    /\ chunking' = [next EXCEPT !.calls = Append(f.calls, batch),
                                !.failed = Append(f.failed, ~ok)]
    /\ UNCHANGED <<dispatch, rtoMigration, reversal, storeCredentialsCache, stores, resolution, normalizer,
                   statusMapping, customerInfo, now, dbAvailable, carrier, labels,
                   orderTracking, orderType, rtoTracking, isSyncRunning, run, script,
                   migration, webhook, detect, returned>>

\* the delay between two batches, then i += awbBatchSize
ChunkDelay ==
    /\ chunking.pc = "batchdelay"
    /\ chunking' = [chunking EXCEPT !.pc = "fetch", !.i = chunking.i + awbBatchSize,
                                    !.waits = chunking.waits + 1]
    /\ UNCHANGED <<dispatch, rtoMigration, reversal, storeCredentialsCache, stores, resolution, normalizer,
                   statusMapping, customerInfo, now, dbAvailable, carrier, labels,
                   orderTracking, orderType, rtoTracking, isSyncRunning, run, script,
                   migration, webhook, detect, returned>>

\* the delay after the loop over a store, then the next store of the Map
ChunkStoreDelay ==
    /\ chunking.pc = "storedelay"
    /\ chunking' = IF chunking.g < Len(chunking.groups)
                   THEN [chunking EXCEPT !.pc = "fetch", !.g = chunking.g + 1, !.i = 0,
                                         !.waits = chunking.waits + 1]
                   ELSE [chunking EXCEPT !.pc = "done", !.waits = chunking.waits + 1]
    /\ UNCHANGED <<dispatch, rtoMigration, reversal, storeCredentialsCache, stores, resolution, normalizer,
                   statusMapping, customerInfo, now, dbAvailable, carrier, labels,
                   orderTracking, orderType, rtoTracking, isSyncRunning, run, script,
                   migration, webhook, detect, returned>>


(***************************************************************************)
(* Environment: the clock, the carrier and the database connection.        *)
(***************************************************************************)
Tick ==
    /\ now < MaxTime
    /\ now' = now + 1
    /\ UNCHANGED <<dispatch, rtoMigration, reversal, storeCredentialsCache, stores, resolution, normalizer,
                   statusMapping, customerInfo, chunking, dbAvailable, carrier, labels, orderTracking, orderType,
                   rtoTracking, isSyncRunning, run, script, migration, webhook, detect, returned>>

\* the stores table is edited outside the service: a row added, removed or changed
StoreUpdate(a, row) ==
    /\ stores[a] # row
    /\ stores' = [stores EXCEPT ![a] = row]
    /\ UNCHANGED <<dispatch, rtoMigration, reversal, storeCredentialsCache, resolution, normalizer,
                   statusMapping, customerInfo, chunking, now, dbAvailable, carrier, labels,
                   orderTracking, orderType, rtoTracking, isSyncRunning, run, script,
                   migration, webhook, detect, returned>>

CarrierReport(o, s) ==
    /\ carrier[o] # s
    /\ carrier' = [carrier EXCEPT ![o] = s]
    /\ UNCHANGED <<dispatch, rtoMigration, reversal, storeCredentialsCache, stores, resolution, normalizer,
                   statusMapping, customerInfo, chunking, now, dbAvailable, labels, orderTracking, orderType,
                   rtoTracking, isSyncRunning, run, script, migration, webhook, detect, returned>>

\* a customer's shipping phone is edited
CustomerUpdate(phone) ==
    /\ customerInfo # phone
    /\ customerInfo' = phone
    /\ UNCHANGED <<dispatch, rtoMigration, reversal, storeCredentialsCache, stores, resolution, normalizer,
                   statusMapping, chunking, now, dbAvailable, carrier, labels, orderTracking,
                   orderType, rtoTracking, isSyncRunning, run, script, migration, webhook,
                   detect, returned>>

DbToggle ==
    /\ dbAvailable' = ~dbAvailable
    /\ UNCHANGED <<dispatch, rtoMigration, reversal, storeCredentialsCache, stores, resolution, normalizer,
                   statusMapping, customerInfo, chunking, now, carrier, labels, orderTracking, orderType,
                   rtoTracking, isSyncRunning, run, script, migration, webhook, detect, returned>>

(***************************************************************************)
(* Deploy-time sync script (scripts/sync-all-tracking-status.js).          *)
(***************************************************************************)
BATCH_SIZE == 10

\* the script's own copy of the normalizer: no mapping lookup, any "pickup" is In Transit
scriptCommonStatuses ==
    [k \in {"out for delivery", "rto", "cancelled", "returned", "failed delivery",
            "attempted delivery", "shipment booked", "dispatched", "in warehouse",
            "out for pickup", "rto delivered"} |->
        CASE k = "out for delivery" -> "Out for Delivery"
          [] k = "rto" -> "RTO"
          [] k = "cancelled" -> "Cancelled"
          [] k = "returned" -> "Returned"
          [] k = "failed delivery" -> "Failed Delivery"
          [] k = "attempted delivery" -> "Attempted Delivery"
          [] k = "shipment booked" -> "Shipment Booked"
          [] k = "dispatched" -> "Dispatched"
          [] k = "in warehouse" -> "In Warehouse"
          [] k = "out for pickup" -> "Out for Pickup"
          [] k = "rto delivered" -> "RTO Delivered"]

scriptNormalizeShipmentStatus(status) ==
    IF falsy(status) THEN "Unknown"
    ELSE LET normalized == fallbackKey(status) IN
         IF includes(normalized, "pickup failed") \/ includes(normalized, "failed pickup")
         THEN "Pickup Failed"
         ELSE IF \/ includes(normalized, "picked")
                 \/ includes(normalized, "pickup")
                 \/ normalized = "in transit"
         THEN "In Transit"
         ELSE IF normalized = "delivered" THEN "Delivered"
         ELSE IF normalized \in DOMAIN scriptCommonStatuses
         THEN scriptCommonStatuses[normalized]
         ELSE status

\* UPDATE labels SET current_shipment_status = ? [, is_handover = 1,
\*                   handover_at = COALESCE(handover_at, ?)]
updateLabelStatus(row, newStatus, isHandover, currentDateTime) ==
    [status |-> newStatus,
     is_handover |-> IF isHandover THEN 1 ELSE row.is_handover,
     handover_at |-> IF isHandover
                     THEN (IF row.handover_at # NoTime THEN row.handover_at
                           ELSE currentDateTime)
                     ELSE row.handover_at]

IdleScript ==
    [pc |-> "idle", snap |-> [o \in Orders |-> [status |-> NULL, is_handover |-> 0]],
     groups |-> <<>>, g |-> 1, i |-> 0, queue |-> <<>>,
     data |-> [o \in Orders |-> NULL], log |-> <<>>]

\* labels ORDER BY account_code, order_id, grouped by account_code
scriptGroups ==
    LET all == [o \in Orders |-> o]
        a == SelectSeq(all, LAMBDA o : accountCodeOf(o) = "STORE_A")
        b == SelectSeq(all, LAMBDA o : accountCodeOf(o) = "STORE_B")
    IN (IF Len(a) > 0 THEN <<a>> ELSE <<>>) \o (IF Len(b) > 0 THEN <<b>> ELSE <<>>)

scriptBatch(sc) ==
    SubSeq(sc.groups[sc.g], sc.i + 1, Min(sc.i + BATCH_SIZE, Len(sc.groups[sc.g])))

\* the for loops' next position once a batch is done: next batch, next store, or the end
scriptAdvance(sc, delayed) ==
    IF sc.i + BATCH_SIZE < Len(sc.groups[sc.g])
    THEN IF delayed
         THEN [sc EXCEPT !.pc = "delay", !.queue = <<>>]
         ELSE [sc EXCEPT !.pc = "fetch", !.i = sc.i + BATCH_SIZE, !.queue = <<>>]
    ELSE IF sc.g < Len(sc.groups)
    THEN [sc EXCEPT !.pc = "fetch", !.g = sc.g + 1, !.i = 0, !.queue = <<>>]
    ELSE [IdleScript EXCEPT !.pc = "done", !.log = sc.log]

\* syncAllTrackingStatus up to the first batch: the labels are read once, here
ScriptStart ==
    /\ script.pc \in {"idle", "done"}
    /\ IF ~dbAvailable
       THEN script' = [IdleScript EXCEPT !.pc = "done"]
       ELSE script' = [IdleScript EXCEPT
                          !.pc = "fetch",
                          !.snap = [o \in Orders |-> [status |-> labels[o].status,
                                                      is_handover |-> labels[o].is_handover]],
                          !.groups = scriptGroups]
    /\ UNCHANGED <<dispatch, rtoMigration, reversal, storeCredentialsCache, stores, resolution, normalizer,
                   statusMapping, customerInfo, chunking, now, dbAvailable, carrier, labels, orderTracking,
                   orderType, rtoTracking, isSyncRunning, run, migration, webhook, detect, returned>>

\* fetchTrackingFromShipway(awbNumbers, authToken): null on any failure
ScriptFetch ==
    /\ script.pc = "fetch"
    /\ \E ok \in BOOLEAN :
         IF ok
         THEN script' = [script EXCEPT !.pc = "labels", !.queue = scriptBatch(script),
                                       !.data = [o \in Orders |-> carrier[o]],
                                       !.log = Append(script.log, "call")]
         ELSE script' = scriptAdvance([script EXCEPT !.log = Append(script.log, "call")],
                                      FALSE)
    /\ UNCHANGED <<dispatch, rtoMigration, reversal, storeCredentialsCache, stores, resolution, normalizer,
                   statusMapping, customerInfo, chunking, now, dbAvailable, carrier, labels, orderTracking,
                   orderType, rtoTracking, isSyncRunning, run, migration, webhook, detect, returned>>

\* one iteration of "for (const label of batch)"
ScriptLabel ==
    LET o == Head(script.queue)
        rest == Tail(script.queue)
        normalizedStatus == scriptNormalizeShipmentStatus(script.data[o])
        isHandover == normalizedStatus = "In Transit" /\ script.snap[o].is_handover # 1
        next == IF Len(rest) > 0 THEN [script EXCEPT !.queue = rest]
                ELSE scriptAdvance(script, TRUE)
    IN
    /\ script.pc = "labels"
    /\ script' = next
    /\ IF /\ script.data[o] # NULL
          /\ normalizedStatus # script.snap[o].status
          /\ dbAvailable
       THEN labels' = [labels EXCEPT ![o] =
                          updateLabelStatus(labels[o], normalizedStatus, isHandover, now)]
       ELSE UNCHANGED labels
    /\ UNCHANGED <<dispatch, rtoMigration, reversal, storeCredentialsCache, stores, resolution, normalizer,
                   statusMapping, customerInfo, chunking, now, dbAvailable, carrier, orderTracking,
                   orderType, rtoTracking, isSyncRunning, run, migration, webhook, detect, returned>>

\* setTimeout(DELAY_BETWEEN_BATCHES_MS) between the batches of a store
ScriptDelay ==
    /\ script.pc = "delay"
    /\ script' = [script EXCEPT !.pc = "fetch", !.i = script.i + BATCH_SIZE,
                                !.log = Append(script.log, "wait")]
    /\ UNCHANGED <<dispatch, rtoMigration, reversal, storeCredentialsCache, stores, resolution, normalizer,
                   statusMapping, customerInfo, chunking, now, dbAvailable, carrier, labels, orderTracking,
                   orderType, rtoTracking, isSyncRunning, run, migration, webhook, detect, returned>>


(***************************************************************************)
(* The batch loop of the script on one store with up to MaxLabels labels,  *)
(* the labels of a fetched batch taken as one step.                        *)
(***************************************************************************)
MaxLabels == 35

\* the labels of one store, as read by the script's query
ScriptLoopStart(n) ==
    /\ script.pc \in {"idle", "done"}
    /\ script' = [IdleScript EXCEPT !.pc = "fetch", !.groups = <<[k \in 1..n |-> k]>>]
    /\ UNCHANGED <<dispatch, rtoMigration, reversal, storeCredentialsCache, stores, resolution, normalizer,
                   statusMapping, customerInfo, chunking, now, dbAvailable, carrier, labels,
                   orderTracking, orderType, rtoTracking, isSyncRunning, run, migration,
                   webhook, detect, returned>>

\* fetchTrackingFromShipway for the batch: on null `continue`, else the labels of the
\* batch and the test for the delay
ScriptLoopFetch(ok) ==
    /\ script.pc = "fetch"
    /\ script' = scriptAdvance([script EXCEPT !.log = Append(script.log, "call")], ok)
    /\ UNCHANGED <<dispatch, rtoMigration, reversal, storeCredentialsCache, stores, resolution, normalizer,
                   statusMapping, customerInfo, chunking, now, dbAvailable, carrier, labels,
                   orderTracking, orderType, rtoTracking, isSyncRunning, run, migration,
                   webhook, detect, returned>>

(***************************************************************************)
(* Handover migration (scripts/migrate-handover-status.js).                *)
(***************************************************************************)
IdleMigration == [pc |-> "idle", recorded |-> FALSE, candidates |-> <<>>, first |-> NoTime,
                  found |-> FALSE, fixedCount |-> 0]

\* the candidate query without its WHERE clause: every label with tracking rows
migrationCandidates_AllTracked ==
    SelectSeq([o \in Orders |-> o], LAMBDA o : orderTracking[o] # {})

\* SELECT DISTINCT ... FROM labels l INNER JOIN order_tracking ot ...
\* WHERE l.is_handover = 0 OR l.handover_at IS NULL
migrationCandidates ==
    SelectSeq([o \in Orders |-> o],
              LAMBDA o : /\ orderTracking[o] # {}
                         /\ (labels[o].is_handover = 0 \/ labels[o].handover_at = NoTime))

\* the first handover event of the rows ORDER BY timestamp ASC
handoverRows(o) == {e \in orderTracking[o] : shouldSetHandover(e.name)}

firstHandoverRowTime(o) ==
    CHOOSE t \in {e.time : e \in handoverRows(o)} :
        \A e \in handoverRows(o) : t <= e.time

\* UPDATE labels SET is_handover = 1, handover_at = ? WHERE order_id = ? AND account_code = ?
migrationUpdate(row, firstHandoverTime, currentDateTime) ==
    [row EXCEPT !.is_handover = 1,
                !.handover_at = IF firstHandoverTime # NoTime THEN firstHandoverTime
                                ELSE currentDateTime]

\* after a candidate: the next one, or the completion record and exit
migrationNext(m) ==
    IF Len(m.candidates) > 1
    THEN [m EXCEPT !.pc = "read", !.candidates = Tail(m.candidates), !.first = NoTime,
                   !.found = FALSE]
    ELSE IF dbAvailable
    THEN [IdleMigration EXCEPT !.pc = "done", !.recorded = TRUE,
                               !.fixedCount = m.fixedCount]
    ELSE [IdleMigration EXCEPT !.pc = "done", !.recorded = m.recorded,
                               !.fixedCount = m.fixedCount]

\* runMigration up to the candidate query
MigrationStart ==
    /\ migration.pc \in {"idle", "done"}
    /\ IF ~dbAvailable \/ migration.recorded
       THEN migration' = [IdleMigration EXCEPT !.pc = "done", !.recorded = migration.recorded]
       ELSE IF Len(migrationCandidates) = 0
       THEN migration' = [IdleMigration EXCEPT !.pc = "done", !.recorded = TRUE]
       ELSE migration' = [IdleMigration EXCEPT !.pc = "read",
                                               !.candidates = migrationCandidates]
    /\ UNCHANGED <<dispatch, rtoMigration, reversal, storeCredentialsCache, stores, resolution, normalizer,
                   statusMapping, customerInfo, chunking, now, dbAvailable, carrier, labels, orderTracking,
                   orderType, rtoTracking, isSyncRunning, run, script, webhook, detect, returned>>

\* the candidate's events are read and scanned for the first handover event
MigrationRead ==
    LET o == Head(migration.candidates) IN
    /\ migration.pc = "read"
    /\ IF ~dbAvailable
       THEN migration' = [IdleMigration EXCEPT !.pc = "done"]
       ELSE IF handoverRows(o) = {}
       THEN migration' = migrationNext(migration)
       ELSE migration' = [migration EXCEPT !.pc = "update", !.found = TRUE,
                                           !.first = firstHandoverRowTime(o)]
    /\ UNCHANGED <<dispatch, rtoMigration, reversal, storeCredentialsCache, stores, resolution, normalizer,
                   statusMapping, customerInfo, chunking, now, dbAvailable, carrier, labels, orderTracking,
                   orderType, rtoTracking, isSyncRunning, run, script, webhook, detect, returned>>

\* the candidate's label is updated
MigrationUpdate ==
    LET o == Head(migration.candidates) IN
    /\ migration.pc = "update"
    /\ IF ~dbAvailable
       THEN /\ migration' = [IdleMigration EXCEPT !.pc = "done"]
            /\ UNCHANGED labels
       ELSE /\ labels' = [labels EXCEPT ![o] = migrationUpdate(labels[o], migration.first, now)]
            /\ migration' = migrationNext([migration EXCEPT
                                               !.fixedCount = migration.fixedCount + 1])
    /\ UNCHANGED <<dispatch, rtoMigration, reversal, storeCredentialsCache, stores, resolution, normalizer,
                   statusMapping, customerInfo, chunking, now, dbAvailable, carrier, orderTracking,
                   orderType, rtoTracking, isSyncRunning, run, script, webhook, detect, returned>>


(***************************************************************************)
(* Webhook service (services/webhookService.js): one dispatch cycle.       *)
(***************************************************************************)
MaxRetryCount == 4

MaxUpdated == 2

DefaultRetries == 3

Digits == "0123456789"

isDigit(c) == \E d \in 1..Len(Digits) : CharAt(Digits, d) = c

digitValue(c) == (CHOOSE d \in 1..Len(Digits) : CharAt(Digits, d) = c) - 1

digitString(n) == CharAt(Digits, n + 1)

RECURSIVE parseDigits(_, _, _)
parseDigits(s, i, acc) ==
    IF i <= Len(s) /\ isDigit(CharAt(s, i))
    THEN parseDigits(s, i + 1, acc * 10 + digitValue(CharAt(s, i)))
    ELSE acc

\* parseInt(s): [nan, value]; leading blanks, an optional sign, then the leading digits
parseInt(s) ==
    LET t == trimStart(s)
        neg == Len(t) > 0 /\ CharAt(t, 1) = "-"
        body == IF Len(t) > 0 /\ CharAt(t, 1) \in {"-", "+"} THEN SubSeq(t, 2, Len(t)) ELSE t
    IN
    IF Len(body) = 0 \/ ~isDigit(CharAt(body, 1))
    THEN [nan |-> TRUE, value |-> 0]
    ELSE [nan |-> FALSE,
          value |-> IF neg THEN 0 - parseDigits(body, 1, 0) ELSE parseDigits(body, 1, 0)]

\* values the utility table may hold for WebhookRetryCount (NULL: not configured)
RetryCountValues == {NULL, "abc", "-1"} \cup {digitString(n) : n \in 0..MaxRetryCount}

\* values the utility table may hold for OrderStatusWebhookUrl
WebhookUrls == {NULL, "https://hook.example/status"}

\* let maxRetries = 3; if (retryCount && !isNaN(parseInt(retryCount))) maxRetries = parseInt(..)
maxRetriesFrom(retryCount, lookupThrows) ==
    IF lookupThrows \/ falsy(retryCount) \/ parseInt(retryCount).nan
    THEN DefaultRetries
    ELSE parseInt(retryCount).value

RECURSIVE pow2(_)
pow2(n) == IF n <= 0 THEN 1 ELSE 2 * pow2(n - 1)

\* a fixed delay of one second between attempts
delayMs_Fixed(attempt) == 1000

\* const delayMs = Math.pow(2, attempt - 1) * 1000
delayMs(attempt) == pow2(attempt - 1) * 1000

NoWebhookResult == [success |-> FALSE, message |-> "none", sent |-> 0, attempts |-> 0]

NoPayload == [timestamp |-> NoTime, orders |-> 0, shipping_phone |-> NULL]

IdleWebhook ==
    [pc |-> "idle", orders |-> 0, webhookUrl |-> NULL, maxRetries |-> 0, attempt |-> 0,
     log |-> <<>>, result |-> NoWebhookResult, payload |-> NoPayload, posted |-> <<>>]

\* updatedOrders when the caller passes null or undefined
MissingList == 0 - 1

\* values of the customer_info lookups
PhoneNumbers == {"9000000001", "9000000002"}

\* an entry test that lets an empty array through
noUpdatedOrders_MissingOnly(n) == n = MissingList

\* if (!updatedOrders || updatedOrders.length === 0)
noUpdatedOrders(n) == n = MissingList \/ n = 0

\* const payload = { timestamp: new Date().toISOString(), event, orders }, from the
\* rows the bulk lookups have just read
buildPayload(w) == [timestamp |-> now, orders |-> w.orders, shipping_phone |-> customerInfo]

\* a loop that builds the payload again for every attempt
payloadForAttempt_Rebuilt(w) == buildPayload(w)

\* axios.post(this.webhookUrl, payload, ...): the object built before the loop
payloadForAttempt(w) == w.payload

\* a resolved POST that does not leave the loop
webhookDelivered_Retried(w, attempt) == [w EXCEPT !.pc = "backoff"]

\* return { success: true, ... sent: orders.length, attempts: attempt }
webhookDelivered(w, attempt) ==
    [w EXCEPT !.pc = "returned",
              !.result = [success |-> TRUE, message |-> "Webhook sent successfully",
                          sent |-> w.orders, attempts |-> attempt]]

\* return { success: false, ... sent: 0, attempts: maxRetries }
webhookExhausted(w) ==
    [w EXCEPT !.pc = "returned",
              !.result = [success |-> FALSE, message |-> "Webhook failed after all attempts",
                          sent |-> 0, attempts |-> w.maxRetries]]

\* no outer catch: the error leaves the function
webhookPreparationFailed_Uncaught(w) == [w EXCEPT !.pc = "thrown"]

\* the outer catch: return { success: false, message: 'Webhook preparation failed', sent: 0 }
webhookPreparationFailed(w) ==
    [w EXCEPT !.pc = "returned",
              !.result = [NoWebhookResult EXCEPT !.message = "Webhook preparation failed"]]

\* the catch of one attempt: back off if attempts remain, else leave the loop
webhookAttemptFailed(w) ==
    IF w.attempt < w.maxRetries
    THEN [w EXCEPT !.pc = "backoff"]
    ELSE webhookExhausted(w)

\* sendStatusUpdateWebhook(updatedOrders) up to the first await
WebhookCall(n) ==
    /\ webhook.pc \in {"idle", "returned"}
    /\ IF noUpdatedOrders(n)
       THEN webhook' = [IdleWebhook EXCEPT
                           !.pc = "returned", !.orders = n,
                           !.result = [NoWebhookResult EXCEPT !.success = TRUE,
                                                              !.message = "No orders to send"]]
       ELSE webhook' = [IdleWebhook EXCEPT !.pc = "geturl", !.orders = n]
    /\ UNCHANGED <<dispatch, rtoMigration, reversal, storeCredentialsCache, stores, resolution, normalizer,
                   statusMapping, customerInfo, chunking, now, dbAvailable, carrier, labels, orderTracking, orderType,
                   rtoTracking, isSyncRunning, run, script, migration, detect, returned>>

\* this.webhookUrl = await database.getUtilityValue('OrderStatusWebhookUrl')
WebhookGetUrl(url, throws) ==
    /\ webhook.pc = "geturl"
    /\ IF throws
       THEN webhook' = webhookPreparationFailed(webhook)
       ELSE IF falsy(url)
       THEN webhook' = [webhook EXCEPT
                           !.pc = "returned", !.webhookUrl = url,
                           !.result = [NoWebhookResult EXCEPT
                                          !.message = "Webhook URL not configured"]]
       ELSE webhook' = [webhook EXCEPT !.pc = "prepare", !.webhookUrl = url]
    /\ UNCHANGED <<dispatch, rtoMigration, reversal, storeCredentialsCache, stores, resolution, normalizer,
                   statusMapping, customerInfo, chunking, now, dbAvailable, carrier, labels, orderTracking, orderType,
                   rtoTracking, isSyncRunning, run, script, migration, detect, returned>>

\* the bulk lookups, the payload, the retry count; then the loop is entered
WebhookPrepare(lookupsThrow, retryCount, retryLookupThrows) ==
    LET maxRetries == maxRetriesFrom(retryCount, retryLookupThrows)
        w == [webhook EXCEPT !.maxRetries = maxRetries, !.attempt = 1,
                             !.payload = buildPayload(webhook)]
    IN
    /\ webhook.pc = "prepare"
    /\ IF lookupsThrow
       THEN webhook' = webhookPreparationFailed(webhook)
       ELSE IF 1 <= maxRetries
       THEN webhook' = [w EXCEPT !.pc = "send"]
       ELSE webhook' = webhookExhausted(w)
    /\ UNCHANGED <<dispatch, rtoMigration, reversal, storeCredentialsCache, stores, resolution, normalizer,
                   statusMapping, customerInfo, chunking, now, dbAvailable, carrier, labels, orderTracking, orderType,
                   rtoTracking, isSyncRunning, run, script, migration, detect, returned>>

PostOutcomes == {"2xx", "non2xx", "timeout", "network"}

\* await axios.post(this.webhookUrl, payload, { timeout: 30000, ... })
WebhookSend(outcome) ==
    LET w == [webhook EXCEPT !.log = Append(webhook.log,
                                   [kind |-> "post", outcome |-> outcome, ms |-> 0]),
                             !.posted = Append(webhook.posted, payloadForAttempt(webhook))]
    IN
    /\ webhook.pc = "send"
    /\ IF outcome = "2xx"
       THEN webhook' = webhookDelivered(w, w.attempt)
       ELSE webhook' = webhookAttemptFailed(w)
    /\ UNCHANGED <<dispatch, rtoMigration, reversal, storeCredentialsCache, stores, resolution, normalizer,
                   statusMapping, customerInfo, chunking, now, dbAvailable, carrier, labels, orderTracking, orderType,
                   rtoTracking, isSyncRunning, run, script, migration, detect, returned>>

\* await new Promise(resolve => setTimeout(resolve, delayMs)), then attempt++
WebhookBackoff ==
    /\ webhook.pc = "backoff"
    /\ webhook' = [webhook EXCEPT
                      !.pc = "send",
                      !.log = Append(webhook.log,
                                     [kind |-> "wait", outcome |-> "",
                                      ms |-> delayMs(webhook.attempt)]),
                      !.attempt = webhook.attempt + 1]
    /\ UNCHANGED <<dispatch, rtoMigration, reversal, storeCredentialsCache, stores, resolution, normalizer,
                   statusMapping, customerInfo, chunking, now, dbAvailable, carrier, labels, orderTracking, orderType,
                   rtoTracking, isSyncRunning, run, script, migration, detect, returned>>


(***************************************************************************)
(* One direct call of processOrderTrackingWithData on a given history.     *)
(***************************************************************************)
MaxHistory == 3

DetectNames == {"Shipment Booked", "Out for Pickup", "IN_TRANSIT", "Delivered"}

Histories ==
    UNION {{h \in [1..n -> [name : DetectNames, time : 1..MaxHistory]] :
                \A a, b \in 1..n : a # b => h[a].time # h[b].time} : n \in 1..MaxHistory}

\* trackingData without events: no entry for the waybill, no shipment_status_history,
\* an empty one, or one whose last element has no name
EmptyTrackingData ==
    {NoData,
     [present |-> TRUE, history |-> <<>>],
     [present |-> TRUE, history |-> <<[name |-> NULL, time |-> 1]>>]}

\* what the stored state of a shipment is made of
storedState(o) ==
    [orderTracking |-> orderTracking[o], label |-> labels[o], orderType |-> orderType[o],
     rto |-> rtoTracking[o]]

NoStoredState ==
    [orderTracking |-> {}, label |-> FreshLabel, orderType |-> "active", rto |-> NoRto]

IdleDetect == [pc |-> "idle", order |-> 1, present |-> FALSE, history |-> <<>>,
               prior |-> NoTime, isHandover |-> FALSE, handoverTimestamp |-> NoTime,
               actualOrderType |-> "none", outcome |-> "none", commits |-> 0,
               before |-> NoStoredState, first |-> NoStoredState]

\* the early returns: nothing is written
DetectNothing ==
    /\ detect.pc = "called"
    /\ noTrackingData([present |-> detect.present, history |-> detect.history])
    /\ detect' = [detect EXCEPT !.pc = "returned", !.outcome = earlyReturnOutcome,
                                !.commits = detect.commits + 1,
                                !.before = storedState(detect.order)]
    /\ UNCHANGED <<dispatch, rtoMigration, reversal, storeCredentialsCache, stores, resolution, normalizer,
                   statusMapping, customerInfo, chunking, now, dbAvailable, carrier, labels,
                   orderTracking, orderType, rtoTracking, isSyncRunning, run, script,
                   migration, webhook, returned>>

\* the same data is handed to processOrderTrackingWithData a second time
DetectAgain ==
    /\ detect.pc = "returned"
    /\ detect.commits = 1
    /\ detect' = [detect EXCEPT !.pc = "called", !.first = storedState(detect.order)]
    /\ UNCHANGED <<dispatch, rtoMigration, reversal, storeCredentialsCache, stores, resolution, normalizer,
                   statusMapping, customerInfo, chunking, now, dbAvailable, carrier, labels,
                   orderTracking, orderType, rtoTracking, isSyncRunning, run, script,
                   migration, webhook, returned>>

\* the whole call, with no write failing: events, then projection
DetectCall ==
    LET o == detect.order
        h == detect.history
    IN
    /\ detect.pc = "called"
    /\ ~noTrackingData([present |-> detect.present, history |-> h])
    /\ detect' = [detect EXCEPT !.pc = "returned",
                                !.isHandover = latestIsHandover(h),
                                !.handoverTimestamp = handoverTimestampOf(h),
                                !.actualOrderType = determineOrderType(normalizeEvents(h)),
                                !.outcome = "fulfilled",
                                !.commits = detect.commits + 1,
                                !.before = storedState(o)]
    /\ orderTracking' = [orderTracking EXCEPT
                            ![o] = storeOrderTrackingRows(orderTracking[o], normalizeEvents(h))]
    /\ orderType' = [orderType EXCEPT ![o] = determineOrderType(normalizeEvents(h))]
    /\ labels' = [labels EXCEPT ![o] =
                     updateLabelsShipmentStatusRow(labels[o],
                         normalizeShipmentStatus(h[Len(h)].name),
                         latestIsHandover(h), handoverTimestampOf(h))]
    /\ UNCHANGED <<dispatch, rtoMigration, reversal, storeCredentialsCache, stores, resolution, normalizer,
                   statusMapping, customerInfo, chunking, now, dbAvailable, carrier, rtoTracking, isSyncRunning,
                   run, script, migration, webhook, returned>>

(***************************************************************************)
(* Two dispatch cycles of sendStatusUpdateWebhook on the one exported      *)
(* WebhookService instance: this.webhookUrl is a field of the instance.    *)
(***************************************************************************)
Cycles == {1, 2}

\* values of OrderStatusWebhookUrl over time
DispatchUrls == WebhookUrls \cup {"https://hook.example/next"}

IdleCycle == [pc |-> "idle", url |-> NULL, maxRetries |-> 0, attempt |-> 0, posts |-> <<>>]

IdleDispatch == [webhookUrl |-> NULL, cycle |-> [i \in Cycles |-> IdleCycle]]

\* sendStatusUpdateWebhook(updatedOrders) with a non-empty list, up to the first await
DispatchCall(i) ==
    /\ dispatch.cycle[i].pc \in {"idle", "returned"}
    /\ dispatch' = [dispatch EXCEPT !.cycle[i] = [IdleCycle EXCEPT !.pc = "geturl"]]
    /\ UNCHANGED <<rtoMigration, reversal, storeCredentialsCache, stores, resolution,
                   normalizer, statusMapping, customerInfo, chunking, now, dbAvailable,
                   carrier, labels, orderTracking, orderType, rtoTracking, isSyncRunning,
                   run, script, migration, webhook, detect, returned>>

\* this.webhookUrl = await database.getUtilityValue('OrderStatusWebhookUrl')
DispatchGetUrl(i, url) ==
    /\ dispatch.cycle[i].pc = "geturl"
    /\ dispatch' = [dispatch EXCEPT
                       !.webhookUrl = url,
                       !.cycle[i].url = url,
                       !.cycle[i].pc = IF falsy(url) THEN "returned" ELSE "prepare"]
    /\ UNCHANGED <<rtoMigration, reversal, storeCredentialsCache, stores, resolution,
                   normalizer, statusMapping, customerInfo, chunking, now, dbAvailable,
                   carrier, labels, orderTracking, orderType, rtoTracking, isSyncRunning,
                   run, script, migration, webhook, detect, returned>>

\* the bulk lookups, the payload and the retry count: awaits between the read of the
\* URL and the first POST
DispatchPrepare(i, lookupsThrow, retryCount) ==
    LET maxRetries == maxRetriesFrom(retryCount, FALSE) IN
    /\ dispatch.cycle[i].pc = "prepare"
    /\ dispatch' = [dispatch EXCEPT
                       !.cycle[i].maxRetries = maxRetries,
                       !.cycle[i].attempt = 1,
                       !.cycle[i].pc = IF lookupsThrow \/ maxRetries < 1 THEN "returned"
                                       ELSE "send"]
    /\ UNCHANGED <<rtoMigration, reversal, storeCredentialsCache, stores, resolution,
                   normalizer, statusMapping, customerInfo, chunking, now, dbAvailable,
                   carrier, labels, orderTracking, orderType, rtoTracking, isSyncRunning,
                   run, script, migration, webhook, detect, returned>>

\* await axios.post(this.webhookUrl, payload, ...): the field as it is at the call
DispatchSend(i, ok) ==
    LET c == dispatch.cycle[i] IN
    /\ c.pc = "send"
    /\ dispatch' = [dispatch EXCEPT
                       !.cycle[i].posts = Append(c.posts, dispatch.webhookUrl),
                       !.cycle[i].pc = IF ok \/ c.attempt >= c.maxRetries THEN "returned"
                                       ELSE "backoff"]
    /\ UNCHANGED <<rtoMigration, reversal, storeCredentialsCache, stores, resolution,
                   normalizer, statusMapping, customerInfo, chunking, now, dbAvailable,
                   carrier, labels, orderTracking, orderType, rtoTracking, isSyncRunning,
                   run, script, migration, webhook, detect, returned>>

\* the backoff between two attempts, then attempt++
DispatchBackoff(i) ==
    /\ dispatch.cycle[i].pc = "backoff"
    /\ dispatch' = [dispatch EXCEPT !.cycle[i].pc = "send",
                                    !.cycle[i].attempt = dispatch.cycle[i].attempt + 1]
    /\ UNCHANGED <<rtoMigration, reversal, storeCredentialsCache, stores, resolution,
                   normalizer, statusMapping, customerInfo, chunking, now, dbAvailable,
                   carrier, labels, orderTracking, orderType, rtoTracking, isSyncRunning,
                   run, script, migration, webhook, detect, returned>>

(***************************************************************************)
(* Return-warehouse migration (migrations/updateRtoWarehouse.js): run().   *)
(***************************************************************************)
IdleRtoMigration ==
    [pc |-> "idle", marked |-> FALSE, records |-> <<>>, called |-> {}, finished |-> FALSE,
     result |-> "none"]

\* SELECT ... FROM rto_tracking rt LEFT JOIN labels l ... WHERE l.awb IS NOT NULL
rtoRecords == SelectSeq([o \in Orders |-> o], LAMBDA o : rtoTracking[o].present)

\* run() up to the completion check
RtoMigrationRun ==
    /\ rtoMigration.pc \in {"idle", "returned"}
    /\ rtoMigration' = IF ~dbAvailable
                       THEN [rtoMigration EXCEPT !.pc = "returned",
                                                 !.result = "Database not available"]
                       ELSE [rtoMigration EXCEPT !.pc = "check", !.result = "none"]
    /\ UNCHANGED <<dispatch, reversal, storeCredentialsCache, stores, resolution,
                   normalizer, statusMapping, customerInfo, chunking, now, dbAvailable,
                   carrier, labels, orderTracking, orderType, rtoTracking, isSyncRunning,
                   run, script, migration, webhook, detect, returned>>

\* isMigrationCompleted(): rows.length > 0, and false when the query throws
RtoMigrationCheck ==
    LET isCompleted == IF dbAvailable THEN rtoMigration.marked ELSE FALSE IN
    /\ rtoMigration.pc = "check"
    /\ rtoMigration' = IF isCompleted
                       THEN [rtoMigration EXCEPT !.pc = "returned",
                                                 !.result = "Migration already completed"]
                       ELSE [rtoMigration EXCEPT !.pc = "query"]
    /\ UNCHANGED <<dispatch, reversal, storeCredentialsCache, stores, resolution,
                   normalizer, statusMapping, customerInfo, chunking, now, dbAvailable,
                   carrier, labels, orderTracking, orderType, rtoTracking, isSyncRunning,
                   run, script, migration, webhook, detect, returned>>

\* the records query: it throws into the outer catch, finds nothing, or starts the loop
RtoMigrationQuery ==
    /\ rtoMigration.pc = "query"
    /\ rtoMigration' =
          IF ~dbAvailable
          THEN [rtoMigration EXCEPT !.pc = "returned", !.result = "fatal"]
          ELSE IF Len(rtoRecords) = 0
          THEN [rtoMigration EXCEPT !.pc = "mark", !.records = <<>>, !.called = {}]
          ELSE [rtoMigration EXCEPT !.pc = "record", !.records = rtoRecords,
                                    !.called = {}]
    /\ UNCHANGED <<dispatch, reversal, storeCredentialsCache, stores, resolution,
                   normalizer, statusMapping, customerInfo, chunking, now, dbAvailable,
                   carrier, labels, orderTracking, orderType, rtoTracking, isSyncRunning,
                   run, script, migration, webhook, detect, returned>>

\* updateRTOWarehouse(record): the carrier call, the extracted location, the UPDATE
\* when it differs; a failing UPDATE is caught and the loop goes on
RtoMigrationRecord(newRtoWh) ==
    LET o == Head(rtoMigration.records)
        rest == Tail(rtoMigration.records)
    IN
    /\ rtoMigration.pc = "record"
    /\ rtoMigration' = [rtoMigration EXCEPT
                           !.called = rtoMigration.called \cup {o},
                           !.records = rest,
                           !.pc = IF Len(rest) = 0 THEN "mark" ELSE "record"]
    /\ IF ~falsy(newRtoWh) /\ rtoTracking[o].rto_wh # newRtoWh /\ dbAvailable
       THEN rtoTracking' = [rtoTracking EXCEPT ![o].rto_wh = newRtoWh]
       ELSE UNCHANGED rtoTracking
    /\ UNCHANGED <<dispatch, reversal, storeCredentialsCache, stores, resolution,
                   normalizer, statusMapping, customerInfo, chunking, now, dbAvailable,
                   carrier, labels, orderTracking, orderType, isSyncRunning,
                   run, script, migration, webhook, detect, returned>>

\* markMigrationCompleted(details): an INSERT whose failure is logged and swallowed
RtoMigrationMark ==
    /\ rtoMigration.pc = "mark"
    /\ rtoMigration' = [rtoMigration EXCEPT
                           !.pc = "returned",
                           !.finished = TRUE,
                           !.marked = IF dbAvailable THEN TRUE ELSE rtoMigration.marked,
                           !.result = "Migration completed successfully"]
    /\ UNCHANGED <<dispatch, reversal, storeCredentialsCache, stores, resolution,
                   normalizer, statusMapping, customerInfo, chunking, now, dbAvailable,
                   carrier, labels, orderTracking, orderType, rtoTracking, isSyncRunning,
                   run, script, migration, webhook, detect, returned>>

(***************************************************************************)
(* Auto-reversal service (AutoReversalService): executeAutoReversal and    *)
(* updateClaimsCriticality on the one exported instance.                   *)
(***************************************************************************)
MaxRuns == 2

IdleReversal ==
    [isRunning |-> FALSE, lastRun |-> NoTime, totalRuns |-> 0,
     execute |-> [k \in Slots |-> "idle"], criticality |-> [k \in Slots |-> "idle"],
     message |-> "none"]

\* the end of executeAutoReversal, by return or by catch: the flag is cleared and the
\* statistics are updated
reversalEnded(r, k, message) ==
    [r EXCEPT !.isRunning = FALSE, !.lastRun = now, !.totalRuns = r.totalRuns + 1,
              !.execute[k] = "idle", !.message = message]

\* executeAutoReversal() up to the first await
ExecuteInvoke(k) ==
    /\ reversal.execute[k] = "idle"
    /\ reversal.totalRuns < MaxRuns
    /\ reversal' = IF reversal.isRunning
                   THEN [reversal EXCEPT !.message = "Auto-reversal already in progress"]
                   ELSE [reversal EXCEPT !.isRunning = TRUE, !.execute[k] = "waitdb",
                                         !.message = "none"]
    /\ UNCHANGED <<dispatch, rtoMigration, storeCredentialsCache, stores, resolution,
                   normalizer, statusMapping, customerInfo, chunking, now, dbAvailable,
                   carrier, labels, orderTracking, orderType, rtoTracking, isSyncRunning,
                   run, script, migration, webhook, detect, returned>>

\* waitForMySQLInitialization, isMySQLAvailable, the query for expired claims
ExecuteQuery(k, expired) ==
    /\ reversal.execute[k] = "waitdb"
    /\ reversal' = IF ~dbAvailable
                   THEN reversalEnded(reversal, k, "Failed to auto-reverse expired orders")
                   ELSE IF expired = 0
                   THEN reversalEnded(reversal, k, "No orders found for auto-reversal")
                   ELSE [reversal EXCEPT !.execute[k] = "update"]
    /\ UNCHANGED <<dispatch, rtoMigration, storeCredentialsCache, stores, resolution,
                   normalizer, statusMapping, customerInfo, chunking, now, dbAvailable,
                   carrier, labels, orderTracking, orderType, rtoTracking, isSyncRunning,
                   run, script, migration, webhook, detect, returned>>

\* the UPDATE of the expired claims and the return
ExecuteUpdate(k) ==
    /\ reversal.execute[k] = "update"
    /\ reversal' = IF ~dbAvailable
                   THEN reversalEnded(reversal, k, "Failed to auto-reverse expired orders")
                   ELSE reversalEnded(reversal, k, "Successfully auto-reversed")
    /\ UNCHANGED <<dispatch, rtoMigration, storeCredentialsCache, stores, resolution,
                   normalizer, statusMapping, customerInfo, chunking, now, dbAvailable,
                   carrier, labels, orderTracking, orderType, rtoTracking, isSyncRunning,
                   run, script, migration, webhook, detect, returned>>

\* updateClaimsCriticality() up to the first await: the flag is read, never written
CriticalityInvoke(k) ==
    /\ reversal.criticality[k] = "idle"
    /\ reversal' = IF reversal.isRunning
                   THEN [reversal EXCEPT !.message = "Service already in progress"]
                   ELSE [reversal EXCEPT !.criticality[k] = "waitdb", !.message = "none"]
    /\ UNCHANGED <<dispatch, rtoMigration, storeCredentialsCache, stores, resolution,
                   normalizer, statusMapping, customerInfo, chunking, now, dbAvailable,
                   carrier, labels, orderTracking, orderType, rtoTracking, isSyncRunning,
                   run, script, migration, webhook, detect, returned>>

\* waitForMySQLInitialization and isMySQLAvailable of updateClaimsCriticality
CriticalityWait(k) ==
    /\ reversal.criticality[k] = "waitdb"
    /\ reversal' = IF ~dbAvailable
                   THEN [reversal EXCEPT !.criticality[k] = "idle",
                                         !.message = "Failed to update claims criticality"]
                   ELSE [reversal EXCEPT !.criticality[k] = "update"]
    /\ UNCHANGED <<dispatch, rtoMigration, storeCredentialsCache, stores, resolution,
                   normalizer, statusMapping, customerInfo, chunking, now, dbAvailable,
                   carrier, labels, orderTracking, orderType, rtoTracking, isSyncRunning,
                   run, script, migration, webhook, detect, returned>>

\* the UPDATE of is_critical and the return
CriticalityUpdate(k) ==
    /\ reversal.criticality[k] = "update"
    /\ reversal' = [reversal EXCEPT
                       !.criticality[k] = "idle",
                       !.message = IF dbAvailable THEN "Successfully updated criticality"
                                   ELSE "Failed to update claims criticality"]
    /\ UNCHANGED <<dispatch, rtoMigration, storeCredentialsCache, stores, resolution,
                   normalizer, statusMapping, customerInfo, chunking, now, dbAvailable,
                   carrier, labels, orderTracking, orderType, rtoTracking, isSyncRunning,
                   run, script, migration, webhook, detect, returned>>

(***************************************************************************)
(* Specifications.                                                         *)
(***************************************************************************)
NoMapping == [s \in {} |-> [renamed |-> "", is_handover |-> 0]]

SampleMapping ==
    [s \in {"IN_TRANSIT", "In Transit"} |-> [renamed |-> "In Transit", is_handover |-> 1]]

MappingTables == {NoMapping, SampleMapping}

\* a table in which the renamed value of one row is the raw status of another
ChainMapping ==
    [s \in {"PICKED", "Picked Up"} |->
        IF s = "PICKED" THEN [renamed |-> "Picked Up", is_handover |-> 1]
        ELSE [renamed |-> "In Transit", is_handover |-> 1]]

\* a table whose is_handover values differ from what the fallback would say
OverrideMapping ==
    [s \in {"Delivered", "Shipment Booked"} |->
        IF s = "Delivered" THEN [renamed |-> "Delivered", is_handover |-> 0]
        ELSE [renamed |-> "Shipment Booked", is_handover |-> 1]]

StatusTables == MappingTables \cup {ChainMapping, OverrideMapping}

(***************************************************************************)
(* Return-warehouse resolution: the RTO block of                           *)
(* processOrderTrackingWithData and extractRTOWarehouse of the migration   *)
(* updateRtoWarehouse.                                                     *)
(***************************************************************************)
MaxActivities == 3

EpochPlaceholder == "1970-01-01 05:30:00"

\* activity.date as the carrier sends it: missing, empty, blank, placeholder or a date
ActivityDates == {NULL, "", " ", EpochPlaceholder, "2026-01-10", "2026-01-12"}

\* new Date(date), as a day number
dateValue(date) ==
    IF date = "2026-01-10" THEN 10 ELSE IF date = "2026-01-12" THEN 12 ELSE 0

\* a filter that keeps the placeholder date
validActivity_EpochKept(activity) ==
    /\ ~falsy(activity.date)
    /\ ~falsy(trim(activity.date))

\* activity.date && activity.date.trim() && activity.date !== '1970-01-01 05:30:00'
validActivity(activity) ==
    /\ ~falsy(activity.date)
    /\ ~falsy(trim(activity.date))
    /\ activity.date # EpochPlaceholder

\* a comparator that sorts the oldest first
compareActivities_OldestFirst(a, b) == dateValue(a.date) - dateValue(b.date)

\* (a, b) => new Date(b.date) - new Date(a.date)
compareActivities(a, b) == dateValue(b.date) - dateValue(a.date)

\* Array.prototype.sort is stable: an element goes behind those the comparator does
\* not put after it
RECURSIVE insertSorted(_, _)
insertSorted(sorted, a) ==
    IF Len(sorted) = 0 THEN <<a>>
    ELSE IF compareActivities(Head(sorted), a) <= 0
    THEN <<Head(sorted)>> \o insertSorted(Tail(sorted), a)
    ELSE <<a>> \o sorted

RECURSIVE sortActivities(_)
sortActivities(list) ==
    IF Len(list) = 0 THEN <<>>
    ELSE insertSorted(sortActivities(SubSeq(list, 1, Len(list) - 1)), list[Len(list)])

NoLocation == [rtoWh |-> NULL, activityDate |-> NULL]

\* rtoWh and activityDate after the activities block of the sync
locationFromActivities(activities) ==
    LET validActivities == SelectSeq(activities, validActivity) IN
    IF Len(activities) > 0 /\ Len(validActivities) > 0
    THEN LET sortedActivities == sortActivities(validActivities) IN
         [rtoWh |-> IF falsy(sortedActivities[1].location) THEN NULL
                    ELSE sortedActivities[1].location,
          activityDate |-> sortedActivities[1].date]
    ELSE NoLocation

\* if (!rtoWh && trackingData.shipment_details?.[0]?.delivered_to) rtoWh = delivered_to
withDeliveredTo(rtoWh, deliveredTo) ==
    IF falsy(rtoWh) /\ ~falsy(deliveredTo) THEN deliveredTo ELSE rtoWh

\* RTOWarehouseMigration.extractRTOWarehouse(activities)
extractRTOWarehouse(activities) ==
    LET validActivities == SelectSeq(activities,
                               LAMBDA a : validActivity(a) /\ a.date # "")
    IN
    IF Len(activities) = 0 THEN NULL
    ELSE IF Len(validActivities) = 0 THEN NULL
    ELSE LET sortedActivities == sortActivities(validActivities) IN
         IF falsy(sortedActivities[1].location) THEN NULL
         ELSE sortedActivities[1].location

IdleResolution ==
    [pc |-> "idle", activities |-> <<>>, deliveredTo |-> NULL, fromActivities |-> NULL,
     rtoWh |-> NULL, activityDate |-> NULL, extracted |-> NULL, before |-> NoRto]

\* the RTO block for order 1, whose latest status is a return status
ResolveRTO ==
    LET found == locationFromActivities(resolution.activities)
        rtoWh == withDeliveredTo(found.rtoWh, resolution.deliveredTo)
    IN
    /\ resolution.pc = "called"
    /\ resolution' = [resolution EXCEPT !.pc = "resolved",
                                        !.fromActivities = found.rtoWh,
                                        !.rtoWh = rtoWh,
                                        !.activityDate = found.activityDate,
                                        !.before = rtoTracking[1]]
    /\ rtoTracking' = [rtoTracking EXCEPT ![1] =
                          storeRTOTrackingRow(rtoTracking[1], "RTO Delivered", rtoWh,
                              IF found.activityDate = NULL THEN NoTime
                              ELSE dateValue(found.activityDate))]
    /\ UNCHANGED <<dispatch, rtoMigration, reversal, storeCredentialsCache, stores, normalizer,
                   statusMapping, customerInfo, chunking, now, dbAvailable, carrier, labels,
                   orderTracking, orderType, isSyncRunning, run, script, migration,
                   webhook, detect, returned>>

\* the migration's extraction on the same activities
ExtractRTO ==
    /\ resolution.pc = "resolved"
    /\ resolution' = [resolution EXCEPT
                          !.pc = "extracted",
                          !.extracted = extractRTOWarehouse(resolution.activities)]
    /\ UNCHANGED <<dispatch, rtoMigration, reversal, storeCredentialsCache, stores, normalizer,
                   statusMapping, customerInfo, chunking, now, dbAvailable, carrier, labels,
                   orderTracking, orderType, rtoTracking, isSyncRunning, run, script,
                   migration, webhook, detect, returned>>

\* activity n of a list is at the n-th location, or has none
locationAt(n) == SubSeq("ABCDEFGH", n, n)

ActivityLists ==
    UNION {{l \in [1..n -> [date : ActivityDates, location : {NULL, "A", "B", "C", "D"}]] :
                \A i \in 1..n : l[i].location \in {NULL, locationAt(i)}}
           : n \in 0..MaxActivities}

ExistingRto ==
    [present |-> TRUE, status |-> "RTO Initiated", rto_wh |-> "W", activity_date |-> 5]

(***************************************************************************)
(* One call of the normalizer and of the handover test on a raw status.    *)
(***************************************************************************)
IdleNormalizer ==
    [pc |-> "idle", status |-> NULL, once |-> NULL, twice |-> NULL, handover |-> FALSE]

\* normalizeShipmentStatus(status), and normalizeShipmentStatus of its result
NormalizeCall ==
    /\ normalizer.pc = "called"
    /\ normalizer' = [normalizer EXCEPT
                          !.pc = "normalized",
                          !.once = normalizeShipmentStatus(normalizer.status),
                          !.twice = normalizeShipmentStatus(
                                        normalizeShipmentStatus(normalizer.status))]
    /\ UNCHANGED <<dispatch, rtoMigration, reversal, storeCredentialsCache, stores, resolution,
                   statusMapping, customerInfo, chunking, now, dbAvailable, carrier, labels,
                   orderTracking, orderType, rtoTracking, isSyncRunning, run, script,
                   migration, webhook, detect, returned>>

\* shouldSetHandover(status)
HandoverCall ==
    /\ normalizer.pc = "normalized"
    /\ normalizer' = [normalizer EXCEPT
                          !.pc = "done", !.handover = shouldSetHandover(normalizer.status)]
    /\ UNCHANGED <<dispatch, rtoMigration, reversal, storeCredentialsCache, stores, resolution,
                   statusMapping, customerInfo, chunking, now, dbAvailable, carrier, labels,
                   orderTracking, orderType, rtoTracking, isSyncRunning, run, script,
                   migration, webhook, detect, returned>>

\* raw statuses: missing, empty, the carrier's spellings, unknown ones
ProbeStatuses ==
    {NULL, "", "AWB_ASSIGNED", "Shipment Booked", "Pickup Failed", "Out for Pickup",
     "SHPFR3", "SHPFR3 In Transit", "IN_TRANSIT", "In Transit", "PICKED", "Picked Up",
     "Pickup Scheduled", " delivered ", "Delivered", "Undelivered", "Out for Delivery",
     "RTO", "rtd", "RTO Delivered", "RTO_IN_TRANSIT", "Pickup Failed - RTO Initiated",
     "Cancelled", "Returned", "Dispatched", "In Warehouse", "Failed Delivery",
     "Attempted Delivery", "Lost", "Unknown"}

InitCommon ==
    /\ now = 1
    /\ dbAvailable = TRUE
    /\ carrier = [o \in Orders |-> NULL]
    /\ labels = [o \in Orders |-> FreshLabel]
    /\ orderTracking = [o \in Orders |-> {}]
    /\ rtoTracking = [o \in Orders |-> NoRto]
    /\ isSyncRunning = [c \in Classes |-> FALSE]
    /\ run = [c \in Classes |-> [k \in Slots |-> IdleFrame]]
    /\ script = IdleScript
    /\ migration = IdleMigration
    /\ webhook = IdleWebhook
    /\ detect = IdleDetect
    /\ returned = NoReturn
    /\ customerInfo = "9000000001"
    /\ chunking = IdleChunking
    /\ storeCredentialsCache = EmptyCache
    /\ dispatch = IdleDispatch
    /\ rtoMigration = IdleRtoMigration
    /\ reversal = IdleReversal
    /\ stores = AllStoresActive
    /\ resolution = IdleResolution
    /\ normalizer = IdleNormalizer

SyncRun(c, k) ==
    \/ Invoke(c, k)
    \/ StartRun(c, k)
    \/ FetchBatch(c, k)
    \/ \E o \in Orders : TaskStore(c, k, o)
    \/ \E o \in Orders : TaskLabel(c, k, o)
    \/ \E o \in Orders : TaskRTO(c, k, o)
    \/ Settle(c, k)
    \/ StoreDelay(c, k)
    \/ Validate(c, k)

\* one order in each class; the other orders are in neither population (no label yet)
OneOrderPerClass ==
    [o \in Orders |-> IF o = 1 THEN "active" ELSE IF o = 2 THEN "inactive" ELSE "none"]

\* Both sync classes, each invoked from several callers (scheduler, manual trigger),
\* against a carrier that reports return shipments and a database that may go away.
GuardStatuses == {"RTO Delivered"}

Init ==
    /\ InitCommon
    /\ statusMapping = NoMapping
    /\ orderType = OneOrderPerClass

Next ==
    \/ DbToggle
    \/ \E o \in {a \in Orders : orderType[a] \in Classes}, s \in GuardStatuses :
          CarrierReport(o, s)
    \/ \E c \in Classes, k \in Slots : SyncRun(c, k)

Spec == Init /\ [][Next]_vars

\* The active sync of one caller over time, beside the deploy-time script and the
\* handover migration, all on the same database.
HistoryStatuses == {"IN_TRANSIT", "RTO Delivered"}

InitHistory ==
    /\ InitCommon
    /\ statusMapping = SampleMapping
    /\ orderType = OneOrderPerClass

NextHistory ==
    \/ Tick
    \/ DbToggle
    \/ \E s \in HistoryStatuses : CarrierReport(1, s)
    \/ SyncRun("active", 1)
    \/ MigrationStart
    \/ MigrationRead
    \/ MigrationUpdate

SpecHistory == InitHistory /\ [][NextHistory]_vars


\* One dispatch cycle of the webhook service at a time, against any configuration and
\* any endpoint behaviour.
InitWebhook ==
    /\ InitCommon
    /\ statusMapping = NoMapping
    /\ orderType = [o \in Orders |-> "active"]

NextWebhook ==
    \/ Tick
    \/ \E phone \in PhoneNumbers : CustomerUpdate(phone)
    \/ \E n \in {MissingList} \cup 0..MaxUpdated : WebhookCall(n)
    \/ \E url \in WebhookUrls, throws \in BOOLEAN : WebhookGetUrl(url, throws)
    \/ \E lookupsThrow \in BOOLEAN, retryCount \in RetryCountValues,
          retryLookupThrows \in BOOLEAN :
            WebhookPrepare(lookupsThrow, retryCount, retryLookupThrows)
    \/ \E outcome \in PostOutcomes : WebhookSend(outcome)
    \/ WebhookBackoff

SpecWebhook == InitWebhook /\ [][NextWebhook]_vars

\* processOrderTrackingWithData called once on any short history, in any list order,
\* for a shipment with or without a recorded handover.
InitDetect ==
    /\ now = 1
    /\ dbAvailable = TRUE
    /\ carrier = [o \in Orders |-> NULL]
    /\ orderTracking = [o \in Orders |-> {}]
    /\ rtoTracking = [o \in Orders |-> NoRto]
    /\ isSyncRunning = [c \in Classes |-> FALSE]
    /\ run = [c \in Classes |-> [k \in Slots |-> IdleFrame]]
    /\ script = IdleScript
    /\ migration = IdleMigration
    /\ webhook = IdleWebhook
    /\ returned = NoReturn
    /\ customerInfo = "9000000001"
    /\ chunking = IdleChunking
    /\ storeCredentialsCache = EmptyCache
    /\ dispatch = IdleDispatch
    /\ rtoMigration = IdleRtoMigration
    /\ reversal = IdleReversal
    /\ stores = AllStoresActive
    /\ resolution = IdleResolution
    /\ normalizer = IdleNormalizer
    /\ orderType = [o \in Orders |-> "active"]
    /\ statusMapping \in MappingTables
    /\ \E prior \in {NoTime, MaxHistory + 1}, h \in Histories :
         /\ labels = [o \in Orders |->
                        IF o = 1 /\ prior # NoTime
                        THEN [status |-> "In Transit", is_handover |-> 1, handover_at |-> prior]
                        ELSE FreshLabel]
         /\ \/ detect = [IdleDetect EXCEPT !.pc = "called", !.present = TRUE,
                                            !.history = h, !.prior = prior]
            \/ \E data \in EmptyTrackingData :
                 detect = [IdleDetect EXCEPT !.pc = "called", !.present = data.present,
                                             !.history = data.history, !.prior = prior]

NextDetect ==
    \/ Tick
    \/ DetectCall
    \/ DetectNothing
    \/ DetectAgain

SpecDetect == InitDetect /\ [][NextDetect]_vars

\* histories in which an event may come without its time
TimelessHistories ==
    UNION {[1..n -> [name : DetectNames, time : {NoTime, 1, 2}]] : n \in 1..2}

\* a table whose keys are the carrier's spellings and whose renamed values have no
\* row of their own
RenamedMapping ==
    [s \in {"IN_TRANSIT"} |-> [renamed |-> "Shipped", is_handover |-> 1]]

\* processOrderTrackingWithData called once on a short history whose events may lack
\* their time, under a table or none.
InitHandover ==
    /\ now = 1
    /\ dbAvailable = TRUE
    /\ carrier = [o \in Orders |-> NULL]
    /\ orderTracking = [o \in Orders |-> {}]
    /\ rtoTracking = [o \in Orders |-> NoRto]
    /\ isSyncRunning = [c \in Classes |-> FALSE]
    /\ run = [c \in Classes |-> [k \in Slots |-> IdleFrame]]
    /\ script = IdleScript
    /\ migration = IdleMigration
    /\ webhook = IdleWebhook
    /\ returned = NoReturn
    /\ customerInfo = "9000000001"
    /\ chunking = IdleChunking
    /\ storeCredentialsCache = EmptyCache
    /\ dispatch = IdleDispatch
    /\ rtoMigration = IdleRtoMigration
    /\ reversal = IdleReversal
    /\ stores = AllStoresActive
    /\ resolution = IdleResolution
    /\ normalizer = IdleNormalizer
    /\ orderType = [o \in Orders |-> "active"]
    /\ labels = [o \in Orders |-> FreshLabel]
    /\ statusMapping \in MappingTables \cup {RenamedMapping}
    /\ \/ \E h \in TimelessHistories :
            detect = [IdleDetect EXCEPT !.pc = "called", !.present = TRUE, !.history = h]
       \/ \E data \in EmptyTrackingData :
            detect = [IdleDetect EXCEPT !.pc = "called", !.present = data.present,
                                        !.history = data.history]

SpecHandover == InitHandover /\ [][NextDetect]_vars

\* One active run over three shipments of two stores, from fresh tables: each carrier
\* call may fail and the database may go away at any await.
BatchStatuses == {NULL, "IN_TRANSIT"}

InitBatch ==
    /\ now = 1
    /\ dbAvailable = TRUE
    /\ carrier \in [Orders -> BatchStatuses]
    /\ labels = [o \in Orders |-> FreshLabel]
    /\ orderTracking = [o \in Orders |-> {}]
    /\ rtoTracking = [o \in Orders |-> NoRto]
    /\ isSyncRunning = [c \in Classes |-> FALSE]
    /\ run = [c \in Classes |-> [k \in Slots |-> IdleFrame]]
    /\ script = IdleScript
    /\ migration = IdleMigration
    /\ webhook = IdleWebhook
    /\ detect = IdleDetect
    /\ returned = NoReturn
    /\ customerInfo = "9000000001"
    /\ chunking = IdleChunking
    /\ storeCredentialsCache = EmptyCache
    /\ dispatch = IdleDispatch
    /\ rtoMigration = IdleRtoMigration
    /\ reversal = IdleReversal
    /\ stores = AllStoresActive
    /\ resolution = IdleResolution
    /\ normalizer = IdleNormalizer
    /\ statusMapping = SampleMapping
    /\ orderType = [o \in Orders |-> "active"]

NextBatch ==
    \/ DbToggle
    \/ (returned = NoReturn /\ Invoke("active", 1))
    \/ StartRun("active", 1)
    \/ FetchBatch("active", 1)
    \/ \E o \in Orders : TaskStore("active", 1, o)
    \/ \E o \in Orders : TaskLabel("active", 1, o)
    \/ Settle("active", 1)
    \/ StoreDelay("active", 1)
    \/ Validate("active", 1)

SpecBatch == InitBatch /\ [][NextBatch]_vars

\* An active and an inactive run that share store A, with the fetch taken await by
\* await, while the row of store A is edited.
\* either store A has shipments of both classes, or all shipments are active
FetchClasses ==
    {[o \in Orders |-> IF o = 3 THEN "inactive" ELSE "active"],
     [o \in Orders |-> "active"]}

FetchCarrier == [o \in Orders |-> "IN_TRANSIT"]

InitFetch ==
    /\ now = 1
    /\ dbAvailable = TRUE
    /\ carrier = FetchCarrier
    /\ labels = [o \in Orders |-> FreshLabel]
    /\ orderTracking = [o \in Orders |-> {}]
    /\ rtoTracking = [o \in Orders |-> NoRto]
    /\ isSyncRunning = [c \in Classes |-> FALSE]
    /\ run = [c \in Classes |-> [k \in Slots |-> IdleFrame]]
    /\ script = IdleScript
    /\ migration = IdleMigration
    /\ webhook = IdleWebhook
    /\ detect = IdleDetect
    /\ returned = NoReturn
    /\ customerInfo = "9000000001"
    /\ chunking = IdleChunking
    /\ storeCredentialsCache = EmptyCache
    /\ dispatch = IdleDispatch
    /\ rtoMigration = IdleRtoMigration
    /\ reversal = IdleReversal
    /\ stores \in [Accounts -> {NoStore, ActiveStore}]
    /\ resolution = IdleResolution
    /\ normalizer = IdleNormalizer
    /\ statusMapping = SampleMapping
    /\ orderType \in FetchClasses

FetchRun(c) ==
    \/ Invoke(c, 1)
    \/ StartRun(c, 1)
    \/ FetchResolve(c, 1)
    \/ FetchLookup(c, 1)
    \/ FetchReturn(c, 1)
    \/ \E o \in Orders : TaskStore(c, 1, o)
    \/ \E o \in Orders : TaskLabel(c, 1, o)
    \/ Settle(c, 1)
    \/ StoreDelay(c, 1)
    \/ Validate(c, 1)

NextFetch ==
    \/ \E row \in StoreRows : StoreUpdate("STORE_A", row)
    \/ \E c \in Classes : FetchRun(c)

SpecFetch == InitFetch /\ [][NextFetch]_vars

\* One return shipment: every list of activities, with or without delivered_to, with
\* or without an earlier record.
InitRto ==
    /\ now = 1
    /\ dbAvailable = TRUE
    /\ carrier = [o \in Orders |-> NULL]
    /\ labels = [o \in Orders |-> FreshLabel]
    /\ orderTracking = [o \in Orders |-> {}]
    /\ rtoTracking \in {[o \in Orders |-> IF o = 1 THEN row ELSE NoRto] :
                            row \in {NoRto, ExistingRto}}
    /\ isSyncRunning = [c \in Classes |-> FALSE]
    /\ run = [c \in Classes |-> [k \in Slots |-> IdleFrame]]
    /\ script = IdleScript
    /\ migration = IdleMigration
    /\ webhook = IdleWebhook
    /\ detect = IdleDetect
    /\ returned = NoReturn
    /\ customerInfo = "9000000001"
    /\ chunking = IdleChunking
    /\ storeCredentialsCache = EmptyCache
    /\ dispatch = IdleDispatch
    /\ rtoMigration = IdleRtoMigration
    /\ reversal = IdleReversal
    /\ stores = AllStoresActive
    /\ normalizer = IdleNormalizer
    /\ statusMapping = NoMapping
    /\ orderType = OneOrderPerClass
    /\ \E l \in ActivityLists, d \in {NULL, "Depot"} :
         resolution = [IdleResolution EXCEPT !.pc = "called", !.activities = l,
                                             !.deliveredTo = d]

NextRto == ResolveRTO \/ ExtractRTO

SpecRto == InitRto /\ [][NextRto]_vars

\* The normalizer and the handover test on every probe status under every table.
InitStatus ==
    /\ now = 1
    /\ dbAvailable = TRUE
    /\ carrier = [o \in Orders |-> NULL]
    /\ labels = [o \in Orders |-> FreshLabel]
    /\ orderTracking = [o \in Orders |-> {}]
    /\ rtoTracking = [o \in Orders |-> NoRto]
    /\ isSyncRunning = [c \in Classes |-> FALSE]
    /\ run = [c \in Classes |-> [k \in Slots |-> IdleFrame]]
    /\ script = IdleScript
    /\ migration = IdleMigration
    /\ webhook = IdleWebhook
    /\ detect = IdleDetect
    /\ returned = NoReturn
    /\ customerInfo = "9000000001"
    /\ chunking = IdleChunking
    /\ storeCredentialsCache = EmptyCache
    /\ dispatch = IdleDispatch
    /\ rtoMigration = IdleRtoMigration
    /\ reversal = IdleReversal
    /\ stores = AllStoresActive
    /\ resolution = IdleResolution
    /\ orderType = OneOrderPerClass
    /\ statusMapping \in StatusTables
    /\ normalizer \in {[IdleNormalizer EXCEPT !.pc = "called", !.status = s] :
                           s \in ProbeStatuses}

NextStatus == NormalizeCall \/ HandoverCall

SpecStatus == InitStatus /\ [][NextStatus]_vars

\* Two dispatch cycles on the shared instance while the configured URL changes.
InitDispatch ==
    /\ InitCommon
    /\ statusMapping = NoMapping
    /\ orderType = OneOrderPerClass

NextDispatch ==
    \E i \in Cycles :
        \/ DispatchCall(i)
        \/ \E url \in DispatchUrls : DispatchGetUrl(i, url)
        \/ \E lookupsThrow \in BOOLEAN, retryCount \in {"1", "2"} :
              DispatchPrepare(i, lookupsThrow, retryCount)
        \/ \E ok \in BOOLEAN : DispatchSend(i, ok)
        \/ DispatchBackoff(i)

SpecDispatch == InitDispatch /\ [][NextDispatch]_vars

\* Runs of the return-warehouse migration one after the other over two records, the
\* database free to fail at any await.
RtoRows == {[ExistingRto EXCEPT !.rto_wh = w] : w \in {NULL, "W"}}

InitRtoMigration ==
    /\ now = 1
    /\ dbAvailable = TRUE
    /\ carrier = [o \in Orders |-> NULL]
    /\ labels = [o \in Orders |-> FreshLabel]
    /\ orderTracking = [o \in Orders |-> {}]
    /\ rtoTracking \in {[o \in Orders |-> IF o = 1 THEN first
                                          ELSE IF o = 2 THEN second ELSE NoRto] :
                            first \in RtoRows, second \in RtoRows \cup {NoRto}}
    /\ isSyncRunning = [c \in Classes |-> FALSE]
    /\ run = [c \in Classes |-> [k \in Slots |-> IdleFrame]]
    /\ script = IdleScript
    /\ migration = IdleMigration
    /\ webhook = IdleWebhook
    /\ detect = IdleDetect
    /\ returned = NoReturn
    /\ customerInfo = "9000000001"
    /\ chunking = IdleChunking
    /\ storeCredentialsCache = EmptyCache
    /\ dispatch = IdleDispatch
    /\ rtoMigration = IdleRtoMigration
    /\ reversal = IdleReversal
    /\ stores = AllStoresActive
    /\ resolution = IdleResolution
    /\ normalizer = IdleNormalizer
    /\ statusMapping = NoMapping
    /\ orderType = OneOrderPerClass

NextRtoMigration ==
    \/ DbToggle
    \/ RtoMigrationRun
    \/ RtoMigrationCheck
    \/ RtoMigrationQuery
    \/ \E newRtoWh \in {NULL, "A", "W"} : RtoMigrationRecord(newRtoWh)
    \/ RtoMigrationMark

SpecRtoMigration == InitRtoMigration /\ [][NextRtoMigration]_vars

\* Calls of both operations of the auto-reversal service, two of each at a time.
InitReversal ==
    /\ InitCommon
    /\ statusMapping = NoMapping
    /\ orderType = OneOrderPerClass

NextReversal ==
    \/ Tick
    \/ DbToggle
    \/ \E k \in Slots :
          \/ ExecuteInvoke(k)
          \/ \E expired \in 0..1 : ExecuteQuery(k, expired)
          \/ ExecuteUpdate(k)
          \/ CriticalityInvoke(k)
          \/ CriticalityWait(k)
          \/ CriticalityUpdate(k)

SpecReversal == InitReversal /\ [][NextReversal]_vars

\* The handover migration alone, run again and again over three labels, the database
\* free to fail at any await.  Orders 1 and 2 start as candidates; order 3 starts
\* fixed or not.
MigrationRowSets ==
    {{},
     {[name |-> "Shipment Booked", time |-> 1]},
     {[name |-> "In Transit", time |-> 1]},
     {[name |-> "Shipment Booked", time |-> 1], [name |-> "In Transit", time |-> 2]},
     {[name |-> "In Transit", time |-> 1], [name |-> "Out for Delivery", time |-> 2]},
     {[name |-> "In Transit", time |-> NoTime]}}

CandidateLabels ==
    {FreshLabel,
     [status |-> "In Transit", is_handover |-> 1, handover_at |-> NoTime],
     [status |-> "In Transit", is_handover |-> 0, handover_at |-> 1]}

FixedLabel == [status |-> "In Transit", is_handover |-> 1, handover_at |-> 1]

InitMigration ==
    /\ now = 1
    /\ dbAvailable = TRUE
    /\ carrier = [o \in Orders |-> NULL]
    /\ \E first \in CandidateLabels, second \in CandidateLabels,
          third \in {FreshLabel, FixedLabel} :
            labels = [o \in Orders |-> IF o = 1 THEN first
                                       ELSE IF o = 2 THEN second ELSE third]
    /\ \E first \in MigrationRowSets, second \in MigrationRowSets :
            orderTracking = [o \in Orders |->
                                IF o = 1 THEN first
                                ELSE IF o = 2 THEN second
                                ELSE {[name |-> "In Transit", time |-> 2]}]
    /\ rtoTracking = [o \in Orders |-> NoRto]
    /\ isSyncRunning = [c \in Classes |-> FALSE]
    /\ run = [c \in Classes |-> [k \in Slots |-> IdleFrame]]
    /\ script = IdleScript
    /\ migration = IdleMigration
    /\ webhook = IdleWebhook
    /\ detect = IdleDetect
    /\ returned = NoReturn
    /\ customerInfo = "9000000001"
    /\ chunking = IdleChunking
    /\ storeCredentialsCache = EmptyCache
    /\ dispatch = IdleDispatch
    /\ rtoMigration = IdleRtoMigration
    /\ reversal = IdleReversal
    /\ stores = AllStoresActive
    /\ resolution = IdleResolution
    /\ normalizer = IdleNormalizer
    /\ statusMapping = NoMapping
    /\ orderType = OneOrderPerClass

NextMigration ==
    \/ Tick
    \/ DbToggle
    \/ MigrationStart
    \/ MigrationRead
    \/ MigrationUpdate

SpecMigration == InitMigration /\ [][NextMigration]_vars

\* The script's loop over the labels of one store, every carrier call free to fail.
InitScriptLoop ==
    /\ InitCommon
    /\ statusMapping = NoMapping
    /\ orderType = OneOrderPerClass

NextScriptLoop ==
    \/ \E n \in 1..MaxLabels : ScriptLoopStart(n)
    \/ \E ok \in BOOLEAN : ScriptLoopFetch(ok)
    \/ ScriptDelay

SpecScriptLoop == InitScriptLoop /\ [][NextScriptLoop]_vars

\* The batch loop on one store's list, for every length up to MaxWaybills, with or
\* without an order that has no waybill yet, every carrier call free to fail.
InitChunks ==
    /\ InitCommon
    /\ statusMapping = NoMapping
    /\ orderType = OneOrderPerClass

NextChunks ==
    \/ \E withAwb \in 0..MaxWaybills, withoutAwb \in 0..1, second \in BOOLEAN :
          ChunkStart(withAwb, withoutAwb, second)
    \/ \E ok \in BOOLEAN : ChunkFetch(ok)
    \/ ChunkDelay
    \/ ChunkStoreDelay

SpecChunks == InitChunks /\ [][NextChunks]_vars

(***************************************************************************)
(* Properties.                                                             *)
(***************************************************************************)
RunningSlots(c) == {k \in Slots : InProgress(c, k)}

databaseVars == <<labels, orderTracking, orderType, rtoTracking>>

\* C1: at most one run of each sync class is in progress at any time; a run is only
\* accepted while no run of its class is in progress, and an invocation made meanwhile
\* returns "already in progress" with success = false and touches nothing else: no
\* frame is queued, no carrier call is started, nothing is written.
C1_OneRunPerClass ==
    /\ [](\A c \in Classes : Cardinality(RunningSlots(c)) <= 1)
    /\ [][\A c \in Classes :
            /\ \A k \in Slots :
                 (run[c][k].pc = "idle" /\ run'[c][k].pc # "idle") => RunningSlots(c) = {}
            /\ (RunningSlots(c) # {} /\ returned' # returned /\ returned'.class = c
                  /\ \A k \in Slots : (run'[c][k].pc = "idle") = (run[c][k].pc = "idle"))
               => /\ returned'.result = AlreadyInProgress
                  /\ ~returned'.result.success
                  /\ UNCHANGED <<run, isSyncRunning, databaseVars>>]_vars

\* C1 witness: an invocation was rejected while a run of its class is in progress
C1_Witness ==
    \E c \in Classes :
        /\ RunningSlots(c) # {}
        /\ returned = [class |-> c, result |-> AlreadyInProgress]

\* C2: the guard of a class is set exactly while an accepted run of that class is in
\* progress: whenever a run has ended (completed, empty population, database not
\* available) the guard is back to idle, so the next invocation is accepted.
C2_GuardReleasedAtEnd ==
    \A c \in Classes : isSyncRunning[c] <=> RunningSlots(c) # {}

\* C2 witness: a run has ended as a failed run, and its guard is idle again
C2_Witness ==
    /\ returned.class \in Classes
    /\ returned.result.message = "Database connection not available"
    /\ ~isSyncRunning[returned.class]
    /\ RunningSlots(returned.class) = {}

\* the stored events of an order with the greatest timestamp
latestEvents(o) == {e \in orderTracking[o] : \A d \in orderTracking[o] : d.time <= e.time}

\* C3: a run in which the carrier reports the canonical status that the most recent
\* stored event of the shipment already has adds no event to the shipment's history.
C3_NoEventOnRepeatedStatus ==
    [][\A o \in Orders :
         \A e \in orderTracking'[o] \ orderTracking[o] :
             \A l \in latestEvents(o) : l.name # e.name]_vars

\* C4: once handover_at is recorded for a shipment, no step changes it.
C4_HandoverAtNeverChanges ==
    [][\A o \in Orders :
         labels[o].handover_at # NoTime => labels'[o].handover_at = labels[o].handover_at]_vars

\* the events of a history that satisfy the handover test, by the name the carrier
\* gave and by the canonical name
handoverEvents(h) == {i \in DOMAIN h : shouldSetHandover(h[i].name)}

canonicalHandoverEvents(h) ==
    {i \in DOMAIN h : shouldSetHandover(normalizeEvents(h)[i].name)}

\* C5: for a shipment with no recorded handover and a history with exactly one
\* handover event (the same one by raw and by canonical name), in whatever order the
\* events are listed, the computed handover timestamp is that event's timestamp.
C5_SingleHandoverEventFound ==
    (/\ detect.pc = "returned"
     /\ detect.prior = NoTime
     /\ Cardinality(handoverEvents(detect.history)) = 1
     /\ canonicalHandoverEvents(detect.history) = handoverEvents(detect.history))
    => \A i \in handoverEvents(detect.history) :
           detect.handoverTimestamp = detect.history[i].time

\* C6: when a sync run returns success, every shipment's stored status is the status
\* of its most recent tracking event.
C6_StatusMatchesLatestEvent ==
    [][(/\ \E c \in Classes, k \in Slots : run[c][k].pc # "idle" /\ run'[c][k].pc = "idle"
        /\ returned'.result.success)
       => \A o \in Orders :
              orderTracking'[o] # {} =>
                  \E e \in orderTracking'[o] :
                      /\ \A d \in orderTracking'[o] : d.time <= e.time
                      /\ labels'[o].status = e.name]_vars

taskEvents(c, k, o) ==
    {normalizeEvents(run[c][k].tasks[o].data.history)[i] :
        i \in DOMAIN run[c][k].tasks[o].data.history}

\* C7: a shipment task whose event insertion fails is rejected on the spot, with no
\* table written; and whenever a task writes the projection or the return-warehouse
\* record, the events it fetched are in the shipment's history.
C7_ProjectionOnlyAfterEvents ==
    [][\A c \in Classes, k \in Slots, o \in Orders :
         /\ (run[c][k].tasks[o].pc = "store" /\ run'[c][k].tasks[o].pc # "store"
               /\ ~dbAvailable)
            => /\ run'[c][k].tasks[o].pc = "rejected"
               /\ UNCHANGED databaseVars
         /\ (run[c][k].tasks[o].pc \in {"label", "rto"}
               /\ run'[c][k].tasks[o].pc # run[c][k].tasks[o].pc)
            => taskEvents(c, k, o) \subseteq orderTracking[o]]_vars

\* C7 witness: the event insertion of a shipment failed; nothing is stored for it
C7_Witness ==
    /\ run["active"][1].tasks[1].pc = "rejected"
    /\ orderTracking[1] = {}
    /\ labels[1] = FreshLabel
    /\ ~rtoTracking[1].present

postsOf(log) == {i \in DOMAIN log : log[i].kind = "post"}

allPostsFailed(log) == \A i \in postsOf(log) : log[i].outcome # "2xx"

\* C8: a dispatch that entered the attempt loop with ceiling n >= 0 and got no 2xx
\* response has, when it returns, made exactly n POSTs, each one but the last followed
\* by one wait of 2^(k-1) seconds after attempt k, none after attempt n, and reports
\* failure with attempts = n and sent = 0.
C8_ExhaustedAfterCeilingAttempts ==
    (/\ webhook.pc = "returned"
     /\ webhook.attempt >= 1
     /\ webhook.maxRetries >= 0
     /\ allPostsFailed(webhook.log))
    => LET n == webhook.maxRetries
           log == webhook.log
       IN
       /\ Cardinality(postsOf(log)) = n
       /\ Len(log) = IF n = 0 THEN 0 ELSE 2 * n - 1
       /\ \A k \in 1..n :
            /\ log[2 * k - 1].kind = "post"
            /\ k < n => log[2 * k] = [kind |-> "wait", outcome |-> "",
                                      ms |-> (2 ^ (k - 1)) * 1000]
       /\ ~webhook.result.success
       /\ webhook.result.attempts = n
       /\ webhook.result.sent = 0

\* C8 witness: four attempts failed one after the other, with waits of 1, 2 and 4 seconds
C8_Witness ==
    /\ webhook.pc = "returned"
    /\ webhook.maxRetries = 4
    /\ Len(webhook.log) = 7
    /\ allPostsFailed(webhook.log)
    /\ webhook.log[6].ms = 4000

\* C9: an attempt that gets a 2xx response is the last thing a dispatch does: the call
\* has returned success, with attempts the number of that attempt and sent the number
\* of orders passed in.
C9_FirstSuccessEndsCycle ==
    \A i \in DOMAIN webhook.log :
        webhook.log[i].outcome = "2xx" =>
            /\ i = Len(webhook.log)
            /\ webhook.pc = "returned"
            /\ webhook.result.success
            /\ webhook.result.attempts = Cardinality(postsOf(webhook.log))
            /\ webhook.result.sent = webhook.orders

\* C9 witness: the second attempt was answered with a 2xx, of a ceiling of three or more
C9_Witness ==
    /\ Len(webhook.log) = 3
    /\ webhook.log[3].outcome = "2xx"
    /\ webhook.maxRetries >= 3
    /\ webhook.orders = MaxUpdated

WebhookMessages ==
    {"No orders to send", "Webhook URL not configured", "Webhook preparation failed",
     "Webhook sent successfully", "Webhook failed after all attempts"}

\* C10: a call of sendStatusUpdateWebhook never ends in an exception: wherever it
\* stops it has returned a result value, and every failure is a result with
\* success = false and sent = 0.
C10_NeverThrows ==
    /\ webhook.pc \in {"idle", "geturl", "prepare", "send", "backoff", "returned"}
    /\ webhook.pc = "returned" =>
         /\ webhook.result.message \in WebhookMessages
         /\ webhook.result.message \in
               {"Webhook URL not configured", "Webhook preparation failed",
                "Webhook failed after all attempts"}
            => (~webhook.result.success /\ webhook.result.sent = 0)

\* C10 witness: a preparation lookup threw, after the URL was read
C10_Witness ==
    /\ webhook.pc = "returned"
    /\ webhook.webhookUrl # NULL
    /\ webhook.result.message = "Webhook preparation failed"

waybillsOf(population) == {population[n] : n \in DOMAIN population} \ {NoAwb}

\* the places (call, position) at which a waybill was requested
requestsOf(calls, awb) ==
    {p \in UNION {{<<c, j>> : j \in DOMAIN calls[c]} : c \in DOMAIN calls} :
        calls[p[1]][p[2]] = awb}

C11_EmptyListSendsNothing ==
    (webhook.pc # "idle" /\ webhook.orders <= 0) =>
        /\ webhook.pc = "returned"
        /\ webhook.result.success
        /\ webhook.result.sent = 0
        /\ webhook.log = <<>>
        /\ webhook.posted = <<>>
        /\ webhook.webhookUrl = NULL

\* C11 witness: a dispatch was called with an empty list
C11_Witness ==
    /\ webhook.pc = "returned"
    /\ webhook.orders = 0
    /\ webhook.result.message = "No orders to send"

\* C12: the POSTs of one dispatch all carry the same payload, whatever happened to the
\* clock and to the customer data between them.
C12_RetriesResendSamePayload ==
    /\ Len(webhook.posted) = Cardinality(postsOf(webhook.log))
    /\ \A i, j \in DOMAIN webhook.posted : webhook.posted[i] = webhook.posted[j]

\* C12 witness: three POSTs were made, and by the last one both the clock and the
\* customer's phone differ from what the payload says
C12_Witness ==
    /\ Len(webhook.posted) = 3
    /\ webhook.posted[3].shipping_phone # customerInfo
    /\ webhook.posted[3].timestamp < now
    /\ webhook.posted[3].orders = MaxUpdated

\* the events of a history with the greatest timestamp
chronologicallyLast(h) == {i \in DOMAIN h : \A j \in DOMAIN h : h[j].time <= h[i].time}

\* C17: the lifecycle class computed for a shipment is inactive exactly when the
\* canonical status of its chronologically last event is "Delivered".
C17_DeliveredIsInactive ==
    (detect.pc = "returned" /\ detect.actualOrderType # "none") =>
        \A i \in chronologicallyLast(detect.history) :
            (detect.actualOrderType = "inactive")
                <=> (normalizeShipmentStatus(detect.history[i].name) = "Delivered")

\* C18: a call for a shipment with no carrier entry, or with an entry whose history is
\* empty, returns normally (its promise fulfils, so it is not counted as an error) and
\* leaves the shipment's events, projection, class and return record as they were.
C18_NoDataNoWrite ==
    (detect.pc = "returned" /\ (~detect.present \/ Len(detect.history) = 0)) =>
        /\ detect.outcome = "fulfilled"
        /\ storedState(detect.order) = detect.before

\* C18 witness: a call with an empty history for a shipment that has a handover recorded
C18_Witness ==
    /\ detect.pc = "returned"
    /\ detect.present
    /\ detect.history = <<>>
    /\ labels[detect.order].handover_at # NoTime

\* C19: after the same fetched data has been committed a second time, the shipment's
\* events and projection are exactly what the first commit left.
C19_CommitTwiceSameState ==
    (detect.pc = "returned" /\ detect.commits = 2) =>
        storedState(detect.order) = detect.first

\* C19 witness: the second commit, at a later second, of a history that made the first
\* commit store events and record a handover
C19_Witness ==
    /\ detect.pc = "returned"
    /\ detect.commits = 2
    /\ detect.prior = NoTime
    /\ Len(detect.history) = MaxHistory
    /\ detect.first.label.handover_at # NoTime
    /\ now > 1


(***************************************************************************)
(* The status webhook at the end of a run.                                 *)
(***************************************************************************)

\* C13: once a sync run has returned success and a shipment's stored status has been
\* set by the sync, the webhook dispatcher has been invoked.
C13_DispatcherInvokedAfterRun ==
    (/\ returned.class = "active"
     /\ returned.result.success
     /\ \E o \in Orders : labels[o].status # NULL)
    => webhook.pc # "idle"

(***************************************************************************)
(* Failures inside a run.                                                  *)
(***************************************************************************)

callsWith(calls, o) ==
    {n \in DOMAIN calls : \E m \in DOMAIN calls[n].awbs : calls[n].awbs[m] = o}

\* the shipments of the carrier calls that failed (ok = FALSE) or answered (ok = TRUE)
shipmentsOfCalls(calls, ok) ==
    {o \in Orders : \E n \in callsWith(calls, o) : calls[n].ok = ok}

\* shipments the carrier answered for whose processing ended in a failed write
rejectedShipments(calls) ==
    {o \in shipmentsOfCalls(calls, TRUE) : carrier[o] # NULL /\ labels[o].status = NULL}

C16_OneFailureOneError ==
    [][LET f == run["active"][1]
           failed == shipmentsOfCalls(f.calls, FALSE)
           rejected == rejectedShipments(f.calls)
       IN
       (f.pc = "validate" /\ run'["active"][1].pc = "idle") =>
           /\ returned'.result.success
           /\ returned'.result.errorCount - Cardinality(failed) = Cardinality(rejected)
           /\ returned'.result.successCount =
                  Cardinality(shipmentsOfCalls(f.calls, TRUE) \ rejected)
           /\ returned'.result.successCount + returned'.result.errorCount =
                  returned'.result.processed]_vars

\* shipments 1 and 3 are in the same chunk: 1 failed, 3 was written, 2 too
C16_Witness ==
    /\ returned.class = "active"
    /\ returned.result.success
    /\ returned.result.errorCount = 1
    /\ returned.result.successCount = 2
    /\ carrier[1] # NULL
    /\ labels[1].status = NULL
    /\ labels[3].status # NULL
    /\ labels[2].status # NULL

(***************************************************************************)
(* The result of an invocation.                                            *)
(***************************************************************************)

\* C20: whatever an invocation returns has the success flag, the three counts and
\* the timestamp.
C20_ResultHasCountsAndTimestamp ==
    returned.class # "none" =>
        {"success", "processed", "successCount", "errorCount", "timestamp"}
            \subseteq returned.result.keys



(***************************************************************************)
(* Store credentials.                                                      *)
(***************************************************************************)

\* store missing, not active, or without token
unresolvable(row) == ~row.found \/ row.status # "active" \/ falsy(row.auth_token)

\* C22: when the lookup of a store's credential answers with a store that is missing,
\* not active or without token, the run sends no carrier request, caches nothing,
\* counts the shipments of the batch as errors, goes on with its loop and returns
\* nothing yet; and a run only ever sends a request for a store whose credential
\* is cached.
C22_UnresolvedStoreSkipped ==
    [][\A c \in Classes :
          LET f == run[c][1]
              g == run'[c][1]
          IN
          /\ \A n \in DOMAIN f.requests :
                 storeCredentialsCache[f.requests[n].account] # NULL
          /\ (f.pc = "lookup" /\ g # f /\ unresolvable(stores[f.groups[f.g].account])) =>
                 /\ g.requests = f.requests
                 /\ storeCredentialsCache' = storeCredentialsCache
                 /\ g.errorCount = f.errorCount + Len(currentBatch(f))
                 /\ g.successCount = f.successCount
                 /\ g.pc \in {"batchdelay", "storedelay"}
                 /\ returned' = returned]_vars

\* store A was never resolved, its shipment is an error; store B was fetched and its
\* shipment written, and the run returned success
C22_Witness ==
    /\ returned.class = "active"
    /\ returned.result.success
    /\ returned.result.errorCount >= 1
    /\ storeCredentialsCache["STORE_A"] = NULL
    /\ storeCredentialsCache["STORE_B"] # NULL
    /\ labels[1].status = NULL
    /\ labels[2].status # NULL

\* C23: a credential-cache entry, once written, keeps its value.
C23_CacheEntryNeverChanges ==
    [][\A a \in Accounts :
          storeCredentialsCache[a] # NULL =>
              storeCredentialsCache'[a] = storeCredentialsCache[a]]_vars

(***************************************************************************)
(* Scheduling inside a run.                                                *)
(***************************************************************************)

inFlight(f) == {o \in Orders : f.tasks[o].pc \in {"store", "label", "rto"}}

\* C29: in a run, shipment tasks are in flight only while the run waits for them, all
\* of them belong to the current chunk of at most 50, the run leaves that wait only
\* when every task of the chunk has settled, and it sends a carrier request only when
\* no earlier request is unanswered and no task exists.
C29_NextChunkAfterAllSettled ==
    [][\A c \in Classes :
          LET f == run[c][1]
              g == run'[c][1]
          IN
          /\ inFlight(f) # {} => f.pc = "process"
          /\ f.pc = "process" =>
                 /\ \A o \in inFlight(f) : InBatch(f, o)
                 /\ Len(currentBatch(f)) <= awbBatchSize
          /\ (f.pc = "process" /\ g.pc # "process") =>
                 \A n \in DOMAIN currentBatch(f) :
                     f.tasks[currentBatch(f)[n]].pc \in {"fulfilled", "rejected"}
          /\ Len(g.requests) > Len(f.requests) =>
                 /\ f.pc \in {"fetch", "lookup"}
                 /\ \A o \in Orders : f.tasks[o] = NoTask
                 /\ Len(g.requests) = Len(f.requests) + 1]_vars

\* the second request of a run is out after both tasks of the first chunk settled
\* at different times
C29_Witness ==
    LET f == run["active"][1] IN
    /\ f.pc = "inflight"
    /\ Len(f.requests) = 2
    /\ labels[1].status # NULL
    /\ labels[3].status # NULL
    /\ labels[2].status = NULL



(***************************************************************************)
(* The two guards.                                                         *)
(***************************************************************************)

\* C24: an invocation of a class is rejected only while a run of that same class is
\* in progress, whatever the other class is doing; a run of each class can be in
\* progress at the same time.
C24_GuardsIndependent ==
    [][\A c \in Classes :
          (returned' # returned /\ returned'.class = c
              /\ returned'.result = AlreadyInProgress)
          => RunningSlots(c) # {}]_vars

\* both runs are past their start: the later one was accepted while the other ran
C24_Witness ==
    /\ \E k \in Slots : run["active"][k].pc \in {"fetch", "process"}
    /\ \E k \in Slots : run["inactive"][k].pc \in {"fetch", "process"}
    /\ isSyncRunning["active"]
    /\ isSyncRunning["inactive"]

(***************************************************************************)
(* The webhook without a configured URL.                                   *)
(***************************************************************************)

\* C21: a dispatch of a non-empty list that finds no webhook URL makes no POST and
\* returns a result that does not report a failure.
C21_NoUrlSkipsWithoutError ==
    (/\ webhook.pc = "returned"
     /\ webhook.orders > 0
     /\ webhook.result.message = "Webhook URL not configured")
    => /\ webhook.posted = <<>>
       /\ webhook.result.success



(***************************************************************************)
(* The delays of a run.                                                    *)
(***************************************************************************)

\* C30: carrier calls and delays of a run alternate, starting with a call: at any
\* time the number of delays is the number of calls or one less, so a delay is
\* between any two consecutive calls, whether they are for the same store or not
\* and whether the earlier one failed or not; when the run is over every call has
\* been followed by a delay.
C30_DelayBetweenCalls ==
    /\ chunking.waits <= Len(chunking.calls)
    /\ Len(chunking.calls) <= chunking.waits + 1
    /\ chunking.pc = "fetch" => chunking.waits = Len(chunking.calls)
    /\ chunking.pc = "done" => chunking.waits = Len(chunking.calls)

\* two calls for store A, the first of which failed, then the call for store B
C30_Witness ==
    /\ chunking.pc = "done"
    /\ Len(chunking.calls) = 3
    /\ Len(chunking.groups) = 2
    /\ chunking.failed = <<TRUE, FALSE, FALSE>>
    /\ chunking.waits = 3



(***************************************************************************)
(* The return warehouse.                                                   *)
(***************************************************************************)

\* the activities whose date is neither missing, empty, blank nor the placeholder
datedActivities(list) ==
    {i \in DOMAIN list : list[i].date \notin {NULL, "", " ", EpochPlaceholder}}

latestActivities(list) ==
    {i \in datedActivities(list) :
        \A j \in datedActivities(list) : dateValue(list[j].date) <= dateValue(list[i].date)}

\* C25: for every list with a valid activity, in whatever order, the location the
\* sync and the migration resolve from the list is the location of the valid activity
\* with the latest date (the first in the list of those that share it), and it is
\* never the location of an activity whose date is missing, empty, blank or the
\* placeholder.
C25_LatestValidActivityWins ==
    LET list == resolution.activities IN
    (resolution.pc \in {"resolved", "extracted"} /\ datedActivities(list) # {}) =>
        LET pick == CHOOSE i \in latestActivities(list) :
                        \A j \in latestActivities(list) : i <= j
        IN
        /\ resolution.fromActivities = list[pick].location
        /\ resolution.pc = "extracted" => resolution.extracted = list[pick].location
        /\ \A i \in DOMAIN list \ datedActivities(list) :
               list[i].location # NULL =>
                   /\ resolution.fromActivities # list[i].location
                   /\ resolution.extracted # list[i].location

\* 2026-01-10 at A, 2026-01-12 at B and an empty date at C resolve to B
C25_Witness ==
    /\ resolution.pc = "extracted"
    /\ resolution.activities = <<[date |-> "2026-01-10", location |-> "A"],
                                 [date |-> "2026-01-12", location |-> "B"],
                                 [date |-> "", location |-> "C"]>>
    /\ resolution.fromActivities = "B"
    /\ resolution.extracted = "B"
    /\ rtoTracking[1].rto_wh = "B"

C27_NormalizeTotalIdempotent ==
    normalizer.pc \in {"normalized", "done"}
        => /\ normalizer.once # Thrown
           /\ normalizer.twice = normalizer.once

\* the table leaves a result alone: it maps it to itself, or it has no row for it nor
\* for the raw status it came from
tableKeeps(status, result) ==
    IF hasStatusInfo(result) THEN getShipmentStatusInfo(result).renamed = result
    ELSE ~hasStatusInfo(status)

\* C27, amended: for every raw status the normalizer returns a value without
\* throwing; normalizing its result again returns that result when the table maps
\* the result to itself, and when the table has a row neither for the raw status
\* nor for the result.
C27_IdempotentWhereTableKeepsResult ==
    normalizer.pc \in {"normalized", "done"}
        => /\ normalizer.once # Thrown
           /\ tableKeeps(normalizer.status, normalizer.once)
                  => normalizer.twice = normalizer.once

\* a spelling the fallback rewrites has been normalized, and its result normalized
\* again, under a table with a row for neither
C27_Witness ==
    /\ normalizer.pc = "normalized"
    /\ statusMapping = SampleMapping
    /\ normalizer.status = "rtd"
    /\ normalizer.once = "RTO Delivered"
    /\ normalizer.twice = "RTO Delivered"

\* the pre-pickup phrases as the claim lists them
prePickupPhrases == {"awb assigned", "shipment booked", "pickup failed", "out for pickup"}

\* the handover phrases of the fallback
handoverPhrases ==
    {"in transit", "picked", "dispatched", "warehouse", "out for delivery", "delivered",
     "rto", "undelivered", "failed delivery", "attempted", "cancelled", "returned"}

\* the rule of the claim with a given list of excluded phrases
handoverRule(status, excluded) ==
    IF falsy(status) THEN FALSE
    ELSE IF hasStatusInfo(status) THEN statusMapping[status].is_handover = 1
    ELSE /\ ~\E p \in excluded : includes(fallbackKey(status), p)
         /\ \E p \in handoverPhrases : includes(fallbackKey(status), p)

\* C28 as stated: without a mapping row the handover test is false when the status
\* contains awb assigned, shipment booked, pickup failed or out for pickup, and
\* otherwise true exactly when it contains a handover phrase; with a mapping row its
\* is_handover value alone decides.
C28_HandoverRuleFourExclusions ==
    normalizer.pc = "done"
        => normalizer.handover = handoverRule(normalizer.status, prePickupPhrases)

\* C28, amended: the excluded phrases are awb assigned, shipment booked, pickup failed,
\* out for pickup and shpfr3; the rest of the rule is as stated.
C28_HandoverRuleFiveExclusions ==
    normalizer.pc = "done"
        => normalizer.handover =
               handoverRule(normalizer.status, prePickupPhrases \cup {"shpfr3"})

\* a status with a pre-pickup phrase and a handover phrase has been tested under a
\* table with no row for it, and is not handover
C28_Witness ==
    /\ normalizer.pc = "done"
    /\ statusMapping = OverrideMapping
    /\ normalizer.status = "Pickup Failed - RTO Initiated"
    /\ ~normalizer.handover

\* C32: whenever the return-warehouse upsert is given an activity date, the location
\* given with it is the location of an activity of the list that carries that date.
C32_PairFromOneActivity ==
    (resolution.pc \in {"resolved", "extracted"} /\ resolution.activityDate # NULL) =>
        \E i \in DOMAIN resolution.activities :
            /\ resolution.activities[i].date = resolution.activityDate
            /\ resolution.activities[i].location = resolution.rtoWh

\* C35: when the loop over the selected shipments of a run is over, every selected
\* shipment was counted once, as a success or as an error:
\* successCount + errorCount = processed (the length of the population).
C35_CountsAddUpToProcessed ==
    (/\ chunking.pc = "done"
     /\ \A n \in DOMAIN chunking.groups : chunking.groups[n].account = "STORE_A") =>
        chunking.successCount + chunking.errorCount = Len(chunking.population)

\* C36: every carrier request a run sends carries the token that is stored at that
\* moment for the store of the request, and that store is active.
C36_RequestUsesCurrentCredential ==
    [][\A c \in Classes :
          LET f == run[c][1]
              g == run'[c][1]
          IN
          Len(g.requests) > Len(f.requests) =>
              LET request == g.requests[Len(g.requests)] IN
              request.auth = credentialsOf(stores[request.account])]_vars

\* C33: whenever processOrderTrackingWithData has written a projection with the
\* handover flag set, the handover timestamp it supplied is not null and is the time
\* of an event of the history it was given.
C33_HandoverFlagHasTimestamp ==
    (detect.pc = "returned" /\ detect.outcome = "fulfilled" /\ detect.isHandover) =>
        /\ detect.handoverTimestamp # NoTime
        /\ \E i \in DOMAIN detect.history :
               detect.history[i].time = detect.handoverTimestamp

\* C34: a dispatch with a non-empty list, a configured URL and a preparation that
\* succeeded has, when it returns, made at least one POST, whatever retry count is
\* stored, and reports as attempts the number of POSTs it made.
C34_AtLeastOnePostAttemptsCounted ==
    (webhook.pc = "returned" /\ webhook.attempt >= 1) =>
        /\ Cardinality(postsOf(webhook.log)) >= 1
        /\ webhook.result.attempts = Cardinality(postsOf(webhook.log))

\* C39: in the script's loop over the labels of a store a delay separates any two
\* consecutive carrier calls: a call is never directly followed by another call.
C39_ScriptDelayBetweenCalls ==
    \A n \in DOMAIN script.log :
        (script.log[n] = "call" /\ n < Len(script.log)) => script.log[n + 1] = "wait"

\* C31: every POST of a dispatch cycle goes to the URL that this cycle read from the
\* configuration, also while another cycle runs on the shared instance.
C31_PostGoesToUrlOfThisCycle ==
    \A i \in Cycles : \A n \in DOMAIN dispatch.cycle[i].posts :
        dispatch.cycle[i].posts[n] = dispatch.cycle[i].url

\* C38: once a run of the return-warehouse migration has finished, a later run makes no
\* carrier call and updates no record.
C38_AppliedInAtMostOneRun ==
    [][rtoMigration.finished =>
          /\ rtoMigration'.called \subseteq rtoMigration.called
          /\ rtoTracking' = rtoTracking]_vars

\* C40: the auto-reversal service has at most one operation in progress at a time.
C40_OneOperationAtATime ==
    Cardinality({k \in Slots : reversal.execute[k] # "idle"})
        + Cardinality({k \in Slots : reversal.criticality[k] # "idle"}) <= 1

\* C37: the handover migration is idempotent.  After a recorded (completed) run no
\* label is updated any more; every update, in whichever run it is made, is the one a
\* complete run makes: on a label with is_handover = 0 or no handover_at whose tracking
\* rows hold a handover event, setting the flag and the time of the first such event
\* (the clock where that event has no time); and a migration is recorded only when no
\* such label is left.  A rerun after a run that failed partway so ends in the state of
\* one complete run.
needsHandoverFix(o) ==
    /\ orderTracking[o] # {}
    /\ (labels[o].is_handover = 0 \/ labels[o].handover_at = NoTime)
    /\ \E e \in orderTracking[o] : shouldSetHandover(e.name)

firstHandoverRow(o) ==
    CHOOSE e \in orderTracking[o] :
        /\ shouldSetHandover(e.name)
        /\ \A d \in orderTracking[o] : shouldSetHandover(d.name) => e.time <= d.time

C37_HandoverMigrationIdempotent ==
    /\ [][migration.recorded => labels' = labels]_vars
    /\ [][\A o \in Orders :
            labels'[o] # labels[o] =>
                /\ needsHandoverFix(o)
                /\ labels'[o].status = labels[o].status
                /\ labels'[o].is_handover = 1
                /\ labels'[o].handover_at = IF firstHandoverRow(o).time # NoTime
                                            THEN firstHandoverRow(o).time ELSE now
                /\ labels'[o].handover_at # NoTime]_vars
    /\ [](migration.recorded => \A o \in Orders : ~needsHandoverFix(o))

\* a recorded run that fixed one of the two candidate labels, the other one fixed by an
\* earlier run that failed before it could record
C37_Witness ==
    /\ migration.pc = "done"
    /\ migration.recorded
    /\ migration.fixedCount = 1
    /\ \A o \in {1, 2} :
          /\ \E e \in orderTracking[o] : shouldSetHandover(e.name)
          /\ labels[o].is_handover = 1
          /\ labels[o].handover_at = 1
          /\ labels[o].status = NULL

=============================================================================
